---- MODULE Spec2Model ----
(***************************************************************************)
(* ClearIce static site generator: the App orchestrator (url map,          *)
(* consumed-file set, generator list, resolve and build phases), the       *)
(* default generators and the build actions, over a small file system.     *)
(*                                                                         *)
(* Strings are sequences of one-character strings, so that the path and    *)
(* url helpers are computed character by character as the code does.       *)
(***************************************************************************)
EXTENDS Integers, Sequences, FiniteSets, TLC

(***************************************************************************)
(* Python string primitives                                                *)
(***************************************************************************)
Min(a, b) == IF a < b THEN a ELSE b

Max(a, b) == IF a > b THEN a ELSE b

\* s[i:j] for 0 <= i, j (Python slice with non-negative bounds)
Slice(s, i, j) == SubSeq(s, i + 1, Min(j, Len(s)))

\* s[:n] where n may be negative (n = -1 drops the last character)
Upto(s, n) == IF n >= 0 THEN Slice(s, 0, n) ELSE Slice(s, 0, Max(Len(s) + n, 0))

\* s[n:] for n >= 0
From(s, n) == SubSeq(s, n + 1, Len(s))

StartsWith(s, p) == Len(p) <= Len(s) /\ SubSeq(s, 1, Len(p)) = p

EndsWith(s, p) == Len(p) <= Len(s) /\ SubSeq(s, Len(s) - Len(p) + 1, Len(s)) = p

\* s.rfind(c): 0-based index of the last c, -1 when there is none
RFind(s, c) ==
  LET hits == {i \in 1..Len(s) : s[i] = c}
  IN IF hits = {} THEN -1 ELSE (CHOOSE i \in hits : \A j \in hits : j <= i) - 1

Contains(s, p) == \E i \in 1..(Len(s) - Len(p) + 1) : SubSeq(s, i, i + Len(p) - 1) = p

\* s.replace('//', '/'): left to right, non-overlapping
RECURSIVE ReplaceDoubleSlash(_)
ReplaceDoubleSlash(s) ==
  IF Len(s) < 2 THEN s
  ELSE IF s[1] = "/" /\ s[2] = "/" THEN <<"/">> \o ReplaceDoubleSlash(From(s, 2))
  ELSE <<s[1]>> \o ReplaceDoubleSlash(Tail(s))

(***************************************************************************)
(* clearice/helpers.py                                                     *)
(***************************************************************************)
remove_extension(filename) == Upto(filename, RFind(filename, "."))

remove_suffix(s, suffix) == Upto(s, Len(s) - Len(suffix))

remove_prefix(s, prefix) == From(s, Len(prefix))

RECURSIVE CollapseSlashes(_)
CollapseSlashes(url) ==
  IF Contains(url, <<"/", "/">>) THEN CollapseSlashes(ReplaceDoubleSlash(url)) ELSE url

\* normalize_url with one replace('//', '/') in place of the loop
normalize_url_one_replace(path) ==
  LET u1 == IF StartsWith(path, <<".", "/">>) THEN From(path, 1) ELSE path
      u2 == IF EndsWith(u1, <<"/", "i", "n", "d", "e", "x">>) THEN Upto(u1, Len(u1) - 5) ELSE u1
      u3 == IF ~StartsWith(u2, <<"/">>) THEN <<"/">> \o u2 ELSE u2
      u4 == IF ~EndsWith(u3, <<"/">>) THEN u3 \o <<"/">> ELSE u3
  IN ReplaceDoubleSlash(u4)

\* normalize_url that drops a final "index" whatever precedes it
normalize_url_any_index(path) ==
  LET u1 == IF StartsWith(path, <<".", "/">>) THEN From(path, 1) ELSE path
      u2 == IF EndsWith(u1, <<"i", "n", "d", "e", "x">>) THEN Upto(u1, Len(u1) - 5) ELSE u1
      u3 == IF ~StartsWith(u2, <<"/">>) THEN <<"/">> \o u2 ELSE u2
      u4 == IF ~EndsWith(u3, <<"/">>) THEN u3 \o <<"/">> ELSE u3
  IN CollapseSlashes(u4)

\* helpers.normalize_url
normalize_url(path) ==
  LET u1 == IF StartsWith(path, <<".", "/">>) THEN From(path, 1) ELSE path
      u2 == IF EndsWith(u1, <<"/", "i", "n", "d", "e", "x">>) THEN Upto(u1, Len(u1) - 5) ELSE u1
      u3 == IF ~StartsWith(u2, <<"/">>) THEN <<"/">> \o u2 ELSE u2
      u4 == IF ~EndsWith(u3, <<"/">>) THEN u3 \o <<"/">> ELSE u3
  IN CollapseSlashes(u4)

(***************************************************************************)
(* os.path (posixpath)                                                     *)
(***************************************************************************)
\* s.split(c)
RECURSIVE Split(_, _)
Split(s, c) ==
  LET hits == {i \in 1..Len(s) : s[i] = c}
  IN IF hits = {} THEN <<s>>
     ELSE LET i == CHOOSE k \in hits : \A j \in hits : k <= j
          IN <<SubSeq(s, 1, i - 1)>> \o Split(From(s, i), c)

SplitSlash(s) == Split(s, "/")

\* '/'.join(comps)
RECURSIVE JoinSlash(_)
JoinSlash(comps) ==
  IF comps = <<>> THEN <<>>
  ELSE IF Len(comps) = 1 THEN comps[1]
  ELSE comps[1] \o <<"/">> \o JoinSlash(Tail(comps))

\* the component loop of posixpath.normpath
RECURSIVE NormComps(_, _, _)
NormComps(comps, new_comps, initial_slashes) ==
  IF comps = <<>> THEN new_comps
  ELSE LET comp == comps[1]
           rest == Tail(comps)
       IN IF comp = <<>> \/ comp = <<".">> THEN NormComps(rest, new_comps, initial_slashes)
          ELSE IF comp /= <<".", ".">>
                  \/ (initial_slashes = 0 /\ new_comps = <<>>)
                  \/ (new_comps /= <<>> /\ new_comps[Len(new_comps)] = <<".", ".">>)
               THEN NormComps(rest, Append(new_comps, comp), initial_slashes)
          ELSE IF new_comps /= <<>>
               THEN NormComps(rest, SubSeq(new_comps, 1, Len(new_comps) - 1), initial_slashes)
          ELSE NormComps(rest, new_comps, initial_slashes)

normpath(path) ==
  IF path = <<>> THEN <<".">>
  ELSE LET initial_slashes ==
             IF ~StartsWith(path, <<"/">>) THEN 0
             ELSE IF StartsWith(path, <<"/", "/">>) /\ ~StartsWith(path, <<"/", "/", "/">>) THEN 2
             ELSE 1
           comps == NormComps(SplitSlash(path), <<>>, initial_slashes)
           body == JoinSlash(comps)
           out == [i \in 1..initial_slashes |-> "/"] \o body
       IN IF out = <<>> THEN <<".">> ELSE out

isabs(path) == StartsWith(path, <<"/">>)

\* os.path.join(a, b)
join(a, b) ==
  IF isabs(b) THEN b
  ELSE IF a = <<>> \/ EndsWith(a, <<"/">>) THEN a \o b
  ELSE a \o <<"/">> \o b

RECURSIVE RStripSlash(_)
RStripSlash(s) == IF EndsWith(s, <<"/">>) THEN RStripSlash(Upto(s, Len(s) - 1)) ELSE s

dirname(p) ==
  LET head == Upto(p, RFind(p, "/") + 1)
  IN IF head /= <<>> /\ head /= [i \in 1..Len(head) |-> "/"] THEN RStripSlash(head) ELSE head

basename(p) == From(p, RFind(p, "/") + 1)

\* the process's working directory is the site root, so abspath of the
\* absolute paths used here is normpath
abspath(path) == normpath(path)

\* fnmatch.fnmatch on POSIX, for patterns of literal characters and '*'
RECURSIVE fnmatch(_, _)
fnmatch(filename, pattern) ==
  IF pattern = <<>> THEN filename = <<>>
  ELSE IF pattern[1] = "*"
       THEN fnmatch(filename, Tail(pattern))
            \/ (filename /= <<>> /\ fnmatch(Tail(filename), pattern))
  ELSE filename /= <<>> /\ filename[1] = pattern[1] /\ fnmatch(Tail(filename), Tail(pattern))

fnmatch_one_of(filename, patterns) ==
  \E i \in 1..Len(patterns) : fnmatch(filename, patterns[i])

IGNORED_FILES == << <<".", "*">>, <<"*", "~">> >>

MARKDOWN_EXTENSIONS == << <<".", "m", "d">>, <<".", "m", "a", "r", "k", "d", "o", "w", "n">> >>

\* the patterns of the first extension alone
MARKDOWN_FILES_md_only == <<<<"*">> \o MARKDOWN_EXTENSIONS[1]>>

MARKDOWN_FILES == [i \in 1..Len(MARKDOWN_EXTENSIONS) |-> <<"*">> \o MARKDOWN_EXTENSIONS[i]]

COLLECTION_CONF == <<"_", "c", "o", "l", "l", "e", "c", "t", "i", "o", "n", ".", "y", "a", "m", "l">>

\* walk_dir over a directory listing: `listing` is the sequence of the
\* absolute paths of the files of the tree in os.walk order.  Yields
\* [abspath, relpath] for the files below root/subdir that are not ignored
\* and match one of the patterns (all files when patterns is empty).
walk_dir(listing, root, subdir, patterns) ==
  LET top == join(root, subdir)
      under == IF EndsWith(top, <<"/">>) THEN top ELSE top \o <<"/">>
      Keep(ap) == /\ StartsWith(ap, under)
                  /\ ~fnmatch_one_of(basename(ap), IGNORED_FILES)
                  /\ (patterns = <<>> \/ fnmatch_one_of(basename(ap), patterns))
      kept == SelectSeq(listing, Keep)
  IN [i \in 1..Len(kept) |-> [abspath |-> kept[i], relpath |-> remove_prefix(kept[i], root)]]

(***************************************************************************)
(* Python dicts: functions from key to value.  A dict that keeps insertion *)
(* order (the url map) is a sequence of [key, value] records.              *)
(***************************************************************************)
EmptyDict == <<>>

\* a.update(b)
update(a, b) ==
  [k \in (DOMAIN a) \cup (DOMAIN b) |-> IF k \in DOMAIN b THEN b[k] ELSE a[k]]

\* a.get(k, default)
get(a, k, default) == IF k \in DOMAIN a THEN a[k] ELSE default

\* a.setdefault(k, v), as the resulting dict
setdefault(a, k, v) == IF k \in DOMAIN a THEN a ELSE update(a, [x \in {k} |-> v])

Keys(map) == {map[i].key : i \in 1..Len(map)}

Lookup(map, k) == map[CHOOSE i \in 1..Len(map) : map[i].key = k].value

(***************************************************************************)
(* The site: the content tree, conf.yaml and the collection descriptors.   *)
(* root_dir is "/", content_dir "/c" and build_dir "/o" (conf.yaml names   *)
(* the two directories c and o).                                           *)
(***************************************************************************)
root_dir == <<"/">>

content_dir == join(root_dir, <<"c">>)

build_dir == join(root_dir, <<"o">>)

F_index == <<"/", "i", "n", "d", "e", "x", ".", "m", "d">>

F_hidden == <<"/", ".", "h", ".", "m", "d">>

F_txt == <<"/", "f", ".", "t", "x", "t">>

F_b_yaml == <<"/", "b", "/", "_", "c", "o", "l", "l", "e", "c", "t", "i", "o", "n", ".", "y", "a", "m", "l">>

F_b_x == <<"/", "b", "/", "x", ".", "m", "a", "r", "k", "d", "o", "w", "n">>

F_yaml == <<"/", "_", "c", "o", "l", "l", "e", "c", "t", "i", "o", "n", ".", "y", "a", "m", "l">>

F_b_index == <<"/", "b", "/", "i", "n", "d", "e", "x", ".", "m", "d">>

F_b_a == <<"/", "b", "/", "a", ".", "m", "d">>

F_b_d == <<"/", "b", "/", "2", "0", "0", "0", "-", "0", "1", "-", "0", "1", "_", "p", ".", "m", "d">>

F_bs_y == <<"/", "b", "/", "s", "/", "y", ".", "m", "d">>

F_bs_yaml == <<"/", "b", "/", "s", "/", "_", "c", "o", "l", "l", "e", "c", "t", "i", "o", "n", ".", "y", "a", "m", "l">>

F_bs_index == <<"/", "b", "/", "s", "/", "i", "n", "d", "e", "x", ".", "m", "d">>

\* every content path of the model, in os.walk order (top down, the files
\* of a directory before its subdirectories)
ContentOrder ==
  <<F_index, F_hidden, F_txt, F_yaml, F_b_yaml, F_b_x, F_b_a, F_b_d, F_b_index, F_bs_yaml,
    F_bs_index, F_bs_y>>

\* the content paths of the sites with static files and nested collections
ContentUniverse == {F_index, F_hidden, F_txt, F_b_yaml, F_b_x, F_bs_yaml, F_bs_index}

NoStr == <<>>

(***************************************************************************)
(* clearice/views.py                                                       *)
(***************************************************************************)
DEFAULT_TEMPLATE == <<"d", "e", "f", "a", "u", "l", "t", ".", "h", "t", "m", "l">>

\* str(None); a value that is None is kept as the text it renders to
None == <<"N", "o", "n", "e">>

\* the context values that are objects (self, app, collections, ...)
Obj == <<"@">>

Digits == <<"0", "1", "2", "3", "4", "5", "6", "7", "8", "9">>

IsDigit(c) == \E i \in 1..Len(Digits) : Digits[i] = c

DigitVal(c) == (CHOOSE i \in 1..Len(Digits) : Digits[i] = c) - 1

RECURSIVE ToInt(_)
ToInt(s) == IF s = <<>> THEN 0 ELSE 10 * ToInt(Upto(s, Len(s) - 1)) + DigitVal(s[Len(s)])

AllDigits(s) == \A i \in 1..Len(s) : IsDigit(s[i])

DaysInMonth(y, m) ==
  IF m \in {4, 6, 9, 11} THEN 30
  ELSE IF m = 2 THEN (IF (y % 4 = 0 /\ y % 100 /= 0) \/ y % 400 = 0 THEN 29 ELSE 28)
  ELSE 31

Pad2(n) == <<Digits[(n \div 10) + 1], Digits[(n % 10) + 1]>>

\* datetime.strptime(s, "%Y-%m-%d"): whether it parses, and str() of the date
StrptimeOk(s) ==
  LET parts == Split(s, "-")
  IN /\ Len(parts) = 3
     /\ Len(parts[1]) = 4 /\ AllDigits(parts[1])
     /\ Len(parts[2]) \in {1, 2} /\ AllDigits(parts[2])
     /\ Len(parts[3]) \in {1, 2} /\ AllDigits(parts[3])
     /\ ToInt(parts[1]) >= 1
     /\ ToInt(parts[2]) \in 1..12
     /\ ToInt(parts[3]) \in 1..DaysInMonth(ToInt(parts[1]), ToInt(parts[2]))

StrptimeStr(s) ==
  LET parts == Split(s, "-")
  IN parts[1] \o <<"-">> \o Pad2(ToInt(parts[2])) \o <<"-">> \o Pad2(ToInt(parts[3]))

\* str_to_date(s) = (date, leftover); date is None when s[:10] is no date
str_to_date(s) ==
  IF StrptimeOk(Slice(s, 0, 10))
  THEN [date |-> StrptimeStr(Slice(s, 0, 10)), leftover |-> From(s, 10)]
  ELSE [date |-> None, leftover |-> s]

\* extract_info_from_filename raises IndexError when the whole name is a date
extract_info_raises(fname) ==
  LET d == str_to_date(remove_extension(fname))
  IN d.date /= None /\ d.leftover = <<>>

extract_info_from_filename(fname) ==
  LET d == str_to_date(remove_extension(fname))
  IN IF d.date /= None
     THEN [date |-> d.date,
           slug |-> IF d.leftover[1] = "_" THEN Tail(d.leftover) ELSE d.leftover]
     ELSE [slug |-> d.leftover]

\* TemplateView.get_context; collection_context is EmptyDict when the view
\* has no collection
TemplateView_get_context(url, template, collection_context, default_context) ==
  LET c0 == [k \in {"self", "app", "collections", "collection", "context"} |-> Obj]
      c1 == update(c0, [url |-> url, template |-> DEFAULT_TEMPLATE])
      c2 == update(c1, collection_context)
      c3 == update(c2, default_context)
  IN IF template /= NoStr THEN update(c3, [template |-> template]) ELSE c3

\* MarkdownView.get_context
MarkdownView_get_context(md_file, frontmatter, content, url, template, collection_context, default_context) ==
  LET c0 == TemplateView_get_context(url, template, collection_context, default_context)
      c1 == update(c0, [content |-> content, frontmatter |-> Obj])
      c2 == update(c1, extract_info_from_filename(basename(md_file)))
  IN update(c2, frontmatter)

\* a view or build action held by the url map
View(kind, md_file, url, collection, context) ==
  [kind |-> kind, md_file |-> md_file, url |-> url, collection |-> collection,
   context |-> context, arg |-> NoStr]

TemplateView(url, template, collection, collection_context, default_context) ==
  View("TemplateView", NoStr, url, collection,
       TemplateView_get_context(url, template, collection_context, default_context))

MarkdownView(md_file, frontmatter, content, url, template, collection, collection_context, default_context) ==
  View("MarkdownView", md_file, url, collection,
       MarkdownView_get_context(md_file, frontmatter, content, url, template,
                                collection_context, default_context))

\* TemplateView.set_url
set_url(view, url) ==
  [view EXCEPT !.url = url, !.context = update(@, [url |-> url])]

(***************************************************************************)
(* The exceptions an operation can end with                                *)
(***************************************************************************)
NoExc == "None"

(***************************************************************************)
(* What the site holds.  `site` is fixed for a behaviour:                  *)
(*   files   the content files present (paths relative to content_dir)     *)
(*   badfm   the Markdown files whose front matter does not parse          *)
(*   fm      the parsed front matter of the Markdown files that have some  *)
(*   desc    the parsed YAML of each _collection.yaml                      *)
(*   static  the `static` entry of conf.yaml                               *)
(***************************************************************************)
\* input and results hold the input and the results of a helper applied on its own
VARIABLES site, inst, app, fs, op, last, input, results

vars == <<site, inst, app, fs, op, last, input, results>>

\* a page entry of a descriptor's `pages` list: a mapping with a string as
\* title and no key but title, template and context
Page(title) ==
  [title |-> title, template |-> NoStr, context |-> EmptyDict,
   is_dict |-> TRUE, title_type |-> "str", unexpected |-> FALSE]

\* a url_format template: literal text and {{ variable }} parts
Lit(text) == [var |-> "", lit |-> text]

Var(name) == [var |-> name, lit |-> NoStr]

\* the parsed YAML of a collection descriptor; an absent key and an empty
\* value are the same to read_yaml_data (`data.pop(key, d) or d`)
Descriptor(name, pages, url_format) ==
  [name |-> name, pages |-> pages, pages_is_list |-> TRUE, context |-> EmptyDict, order |-> "",
   url_format |-> url_format]

\* conf.yaml without a `static` entry
NoStatic ==
  [present |-> FALSE, patterns |-> <<>>, link_given |-> FALSE, link |-> FALSE,
   link_above_given |-> FALSE, link_above |-> 0, link_type |-> "soft"]

\* a `static` entry with the pattern *.txt; link and link_above may each be
\* left out
StaticOptions(link_given, link, link_above_given, link_above, link_type) ==
  [present |-> TRUE, patterns |-> << <<"*", ".", "t", "x", "t">> >>,
   link_given |-> link_given, link |-> link,
   link_above_given |-> link_above_given, link_above |-> link_above, link_type |-> link_type]

StaticConf(link, link_above, link_type) == StaticOptions(TRUE, link, TRUE, link_above, link_type)

\* os.path.getsize of the content files
getsize(path) == Len(path)

abs_content(relpath) == content_dir \o relpath

\* the front matter read_frontmatter_file returns for a Markdown file
FrontMatterOf(md_file) ==
  IF \E f \in DOMAIN site.fm : abs_content(f) = normpath(md_file)
  THEN site.fm[CHOOSE f \in DOMAIN site.fm : abs_content(f) = normpath(md_file)]
  ELSE EmptyDict

ContentOf(md_file) == md_file

\* the absolute paths of the content files present, in os.walk order
ContentListing ==
  LET present == SelectSeq(ContentOrder, LAMBDA f : f \in site.files)
  IN [i \in 1..Len(present) |-> abs_content(present[i])]

\* os.path.exists for a path of the content tree
exists(path) == \E f \in site.files : abs_content(f) = normpath(path)

(***************************************************************************)
(* clearice/app.py: the App's state is the record `app`; app.exc is the    *)
(* exception the running operation has raised (NoExc while it runs on),    *)
(* and every step below is skipped once an exception is propagating.       *)
(***************************************************************************)
raise(a, e) == IF a.exc /= NoExc THEN a ELSE [a EXCEPT !.exc = e]

\* add_url that replaces the entry of a url already in the map
add_url_dropcheck(a, url, view) ==
  IF a.exc /= NoExc THEN a
  ELSE IF url \in Keys(a.url_map)
       THEN [a EXCEPT !.url_map =
               [i \in 1..Len(@) |-> IF @[i].key = url THEN [key |-> url, value |-> view] ELSE @[i]]]
  ELSE [a EXCEPT !.url_map = Append(@, [key |-> url, value |-> view])]

\* App.add_url
add_url(a, url, view) ==
  IF a.exc /= NoExc THEN a
  ELSE IF url \in Keys(a.url_map) THEN raise(a, "UrlConflictError")
  ELSE [a EXCEPT !.url_map = Append(@, [key |-> url, value |-> view])]

consume(a, path) ==
  IF a.exc /= NoExc THEN a ELSE [a EXCEPT !.consumed_files = @ \cup {path}]

is_consumed(a, path) == path \in a.consumed_files

\* add_generator without the comparison of names
add_generator_nocheck(a, gen) ==
  IF a.exc /= NoExc THEN a ELSE [a EXCEPT !.generators = Append(@, gen)]

\* App.add_generator
add_generator(a, gen) ==
  IF a.exc /= NoExc THEN a
  ELSE IF /\ gen.has_name
          /\ \E i \in 1..Len(a.generators) :
               a.generators[i].has_name /\ gen.name = a.generators[i].name
       THEN raise(a, "ConfigError")
  ELSE [a EXCEPT !.generators = Append(@, gen)]

(***************************************************************************)
(* clearice/generators.py                                                  *)
(***************************************************************************)
Generator(cls, has_name, name, url, yaml_path) ==
  [cls |-> cls, has_name |-> has_name, name |-> name, url |-> url, yaml_path |-> yaml_path,
   pages |-> <<>>, pages_is_list |-> TRUE, context |-> EmptyDict, item_order |-> "",
   url_format |-> <<>>,
   items |-> <<>>, patterns |-> <<>>, link |-> FALSE, link_above |-> 0, link_type |-> "soft"]

MarkdownGenerator == Generator("MarkdownGenerator", FALSE, NoStr, NoStr, NoStr)

\* the first character of the url_format string
url_format_startswith_slash(url_format) ==
  /\ url_format /= <<>>
  /\ url_format[1].var = ""
  /\ StartsWith(url_format[1].lit, <<"/">>)

\* read_yaml_data without the check of url_format
read_yaml_data_exc_unchecked(data) == NoExc

\* Collection.read_yaml_data: the exception it raises, if any
read_yaml_data_exc(data) ==
  IF url_format_startswith_slash(data.url_format) THEN "ConfigError" ELSE NoExc

\* Collection.__init__ with read_yaml_data
Collection(url, yaml_path, data) ==
  [Generator("Collection", TRUE, data.name, url, yaml_path) EXCEPT
     !.pages = data.pages, !.pages_is_list = data.pages_is_list, !.context = data.context,
     !.item_order = data.order,
     !.url_format = data.url_format]

\* StaticFileGeneraor.__init__ / from_conf
StaticFileGeneraor(conf) ==
  [Generator("StaticFileGeneraor", FALSE, NoStr, NoStr, NoStr) EXCEPT
     !.patterns = conf.patterns,
     !.link = IF conf.link_given THEN conf.link ELSE conf.link_above_given,
     !.link_above = IF conf.link_above_given THEN conf.link_above ELSE 0,
     !.link_type = conf.link_type]

\* the exception MarkdownView.__init__ raises for a file, if any
MarkdownView_exc(md_file) ==
  IF \E f \in site.badfm : abs_content(f) = normpath(md_file) THEN "FrontmatterError"
  ELSE IF extract_info_raises(basename(md_file)) THEN "IndexError"
  ELSE NoExc

\* records that a view was built from a file some generator had consumed
note_view(a, md_file) ==
  IF a.exc = NoExc /\ is_consumed(a, md_file)
  THEN [a EXCEPT !.reprocessed = @ \cup {md_file}] ELSE a

\* Template(url_format).render(context): an undefined variable renders empty
RECURSIVE render_url_format(_, _)
render_url_format(url_format, context) ==
  IF url_format = <<>> THEN <<>>
  ELSE (IF url_format[1].var = "" THEN url_format[1].lit
        ELSE get(context, url_format[1].var, NoStr))
       \o render_url_format(Tail(url_format), context)

\* Collection.file_is_item: url.rindex('/') raises ValueError without a '/'
file_is_item_raises(relpath) ==
  RFind(Upto(normalize_url(remove_extension(relpath)), -1), "/") = -1

file_is_item(self, relpath) ==
  LET url == Upto(normalize_url(remove_extension(relpath)), -1)
      last_slash == RFind(url, "/")
  IN Upto(url, last_slash + 1) = self.url

\* Collection.file_to_url
file_to_url(self, view, relpath) ==
  IF self.url_format /= <<>>
  THEN normalize_url(self.url \o render_url_format(self.url_format, view.context))
  ELSE normalize_url(remove_extension(relpath))

\* MarkdownGenerator.__call__: the loop over walk_content, which skips the
\* files consumed by the time it reaches them
RECURSIVE MarkdownGenerator_call(_, _)
MarkdownGenerator_call(a, files) ==
  IF a.exc /= NoExc \/ files = <<>> THEN a
  ELSE LET f == files[1]
       IN IF is_consumed(a, f.abspath) THEN MarkdownGenerator_call(a, Tail(files))
          ELSE IF MarkdownView_exc(f.abspath) /= NoExc
               THEN raise(a, MarkdownView_exc(f.abspath))
          ELSE LET url == normalize_url(remove_extension(f.relpath))
                   view == MarkdownView(f.abspath, FrontMatterOf(f.abspath), ContentOf(f.abspath),
                                        url, NoStr, NoStr, EmptyDict, EmptyDict)
                   a1 == add_url(note_view(a, f.abspath), url, view)
               IN MarkdownGenerator_call(consume(a1, f.abspath), Tail(files))

\* Collection.register_page
register_page(a, gi, page) ==
  IF a.exc /= NoExc THEN a
  ELSE LET self == a.generators[gi]
           title == page.title
       IN IF ~page.is_dict THEN raise(a, "ConfigError")
          ELSE IF page.title_type = "NoneType" THEN raise(a, "ConfigError")
          ELSE IF page.title_type /= "str" THEN raise(a, "ConfigError")
          ELSE IF page.unexpected THEN raise(a, "ConfigError")
          ELSE IF title = <<>> THEN raise(a, "IndexError")
          ELSE IF title[1] = "/" THEN raise(a, "ConfigError")
          ELSE LET url == normalize_url(self.url \o title)
                   md_path == join(abspath(content_dir), From(self.url, 1) \o title \o <<".", "m", "d">>)
                   Wrap(b) == IF b.exc = "UrlConflictError" THEN [b EXCEPT !.exc = "ConfigError"] ELSE b
               IN IF exists(md_path)
                  THEN IF MarkdownView_exc(md_path) /= NoExc
                       THEN raise(a, MarkdownView_exc(md_path))
                       ELSE LET view == MarkdownView(md_path, FrontMatterOf(md_path), ContentOf(md_path),
                                                     url, page.template, self.url, self.context,
                                                     page.context)
                            IN Wrap(add_url(consume(note_view(a, md_path), md_path), url, view))
                  ELSE LET view == TemplateView(url, page.template, self.url, self.context,
                                                setdefault(page.context, "content", NoStr))
                       IN Wrap(add_url(a, url, view))

RECURSIVE register_pages(_, _, _)
register_pages(a, gi, pages) ==
  IF a.exc /= NoExc \/ pages = <<>> THEN a
  ELSE register_pages(register_page(a, gi, pages[1]), gi, Tail(pages))

\* the item loop of Collection.__call__
RECURSIVE Collection_items(_, _, _)
Collection_items(a, gi, files) ==
  IF a.exc /= NoExc \/ files = <<>> THEN a
  ELSE LET self == a.generators[gi]
           f == files[1]
       IN IF is_consumed(a, f.abspath) THEN Collection_items(a, gi, Tail(files))
          ELSE IF file_is_item_raises(f.relpath) THEN raise(a, "ValueError")
          ELSE IF ~file_is_item(self, f.relpath) THEN Collection_items(a, gi, Tail(files))
          ELSE IF MarkdownView_exc(f.abspath) /= NoExc
               THEN raise(a, MarkdownView_exc(f.abspath))
          ELSE LET view0 == MarkdownView(f.abspath, FrontMatterOf(f.abspath), ContentOf(f.abspath),
                                         None, NoStr, self.url, self.context, EmptyDict)
                   url == file_to_url(self, view0, f.relpath)
                   view == set_url(view0, url)
                   a1 == [note_view(a, f.abspath) EXCEPT !.generators[gi].items = Append(@, view)]
               IN Collection_items(add_url(consume(a1, f.abspath), url, view), gi, Tail(files))

\* the characters of the model in code point order
CharOrder == <<" ", "*", "-", ".", "/", "0", "1", "2", "3", "4", "5", "6", "7", "8", "9", "@", "A", "B", "C", "D", "E", "F", "G", "H", "I", "J", "K", "L", "M", "N", "O", "P", "Q", "R", "S", "T", "U", "V", "W", "X", "Y", "Z", "_", "a", "b", "c", "d", "e", "f", "g", "h", "i", "j", "k", "l", "m", "n", "o", "p", "q", "r", "s", "t", "u", "v", "w", "x", "y", "z", "{", "}", "~">>

Upper == <<"A", "B", "C", "D", "E", "F", "G", "H", "I", "J", "K", "L", "M", "N", "O", "P", "Q", "R", "S", "T", "U", "V", "W", "X", "Y", "Z">>

LowerCase == <<"a", "b", "c", "d", "e", "f", "g", "h", "i", "j", "k", "l", "m", "n", "o", "p", "q", "r", "s", "t", "u", "v", "w", "x", "y", "z">>

Ord(c) == CHOOSE i \in 1..Len(CharOrder) : CharOrder[i] = c

\* str.lower()
lower(s) ==
  [i \in 1..Len(s) |->
     IF \E k \in 1..Len(Upper) : Upper[k] = s[i]
     THEN LowerCase[CHOOSE k \in 1..Len(Upper) : Upper[k] = s[i]] ELSE s[i]]

\* s < t for Python strings
RECURSIVE StrLess(_, _)
StrLess(s, t) ==
  IF t = <<>> THEN FALSE
  ELSE IF s = <<>> THEN TRUE
  ELSE IF s[1] = t[1] THEN StrLess(Tail(s), Tail(t))
  ELSE Ord(s[1]) < Ord(t[1])

\* a sort key that keeps the case of the value
sortfunc_case_sensitive(item_order, item) == get(item.context, item_order, NoStr)

\* the sort key of Collection.__call__'s sortfunc
sortfunc(item_order, item) == lower(get(item.context, item_order, NoStr))

\* inserts x after the elements of the sorted sequence whose key is not greater
RECURSIVE InsertSorted(_, _, _)
InsertSorted(sorted_items, x, item_order) ==
  IF sorted_items = <<>> THEN <<x>>
  ELSE IF StrLess(sortfunc(item_order, x), sortfunc(item_order, sorted_items[1]))
       THEN <<x>> \o sorted_items
  ELSE <<sorted_items[1]>> \o InsertSorted(Tail(sorted_items), x, item_order)

\* list(sorted(items, key=sortfunc)): a stable sort
RECURSIVE sorted(_, _)
sorted(items, item_order) ==
  IF items = <<>> THEN <<>>
  ELSE InsertSorted(sorted(Upto(items, Len(items) - 1), item_order), items[Len(items)], item_order)

\* Collection.__call__
Collection_call(a, gi) ==
  LET self == a.generators[gi]
      sort(a2) ==
        IF a2.exc /= NoExc \/ self.item_order = "" THEN a2
        ELSE [a2 EXCEPT !.generators[gi].items = sorted(@, self.item_order)]
  IN IF ~self.pages_is_list THEN raise(consume(a, self.yaml_path), "ConfigError")
     ELSE sort(Collection_items(
                 register_pages(consume(a, self.yaml_path), gi, self.pages), gi,
                 walk_dir(ContentListing, content_dir, remove_prefix(self.url, <<"/">>),
                          MARKDOWN_FILES)))

Hard == <<"h", "a", "r", "d">>

Soft == <<"s", "o", "f", "t">>

Copy(src) == [View("Copy", src, NoStr, NoStr, EmptyDict) EXCEPT !.arg = NoStr]

Link(src, hard) == [View("Link", src, NoStr, NoStr, EmptyDict) EXCEPT !.arg = IF hard THEN Hard ELSE Soft]

File(content) == [View("File", NoStr, NoStr, NoStr, EmptyDict) EXCEPT !.arg = content]

\* get_action that links the files of exactly the threshold's size too
get_action_at_threshold(self, path) ==
  LET size == IF self.link_above > 0 THEN getsize(path) ELSE -1
  IN IF self.link /\ (size = -1 \/ size >= self.link_above)
     THEN Link(path, self.link_type = "hard")
     ELSE Copy(path)

\* StaticFileGeneraor.get_action; a size of -1 stands for float('inf')
get_action(self, path) ==
  LET size == IF self.link_above > 0 THEN getsize(path) ELSE -1
  IN IF self.link /\ (size = -1 \/ size > self.link_above)
     THEN Link(path, self.link_type = "hard")
     ELSE Copy(path)

\* StaticFileGeneraor.__call__
RECURSIVE StaticFileGeneraor_call(_, _, _)
StaticFileGeneraor_call(a, gi, files) ==
  IF a.exc /= NoExc \/ files = <<>> THEN a
  ELSE LET f == files[1]
       IN IF is_consumed(a, f.abspath) THEN StaticFileGeneraor_call(a, gi, Tail(files))
          ELSE StaticFileGeneraor_call(
                 add_url(consume(a, f.abspath), normalize_url(f.relpath),
                         get_action(a.generators[gi], f.abspath)),
                 gi, Tail(files))

\* a generator registered by the caller: a callable that adds one url
UserGenerator_call(a, gi) ==
  add_url(a, a.generators[gi].url, File(a.generators[gi].url))

\* generator(self) for the generator at index gi
call_generator(a, gi) ==
  LET g == a.generators[gi]
  IN IF g.cls = "Collection" THEN Collection_call(a, gi)
     ELSE IF g.cls = "MarkdownGenerator"
          THEN MarkdownGenerator_call(a, walk_dir(ContentListing, content_dir, <<>>, MARKDOWN_FILES))
     ELSE IF g.cls = "StaticFileGeneraor"
          THEN StaticFileGeneraor_call(a, gi, walk_dir(ContentListing, content_dir, <<>>, g.patterns))
     ELSE UserGenerator_call(a, gi)

RECURSIVE run_generators(_, _)
run_generators(a, gi) ==
  IF a.exc /= NoExc \/ gi > Len(a.generators) THEN a
  ELSE run_generators(call_generator(a, gi), gi + 1)

\* generate_urls without the test of has_generated_urls
generate_urls_unguarded(a) ==
  IF a.exc /= NoExc THEN a
  ELSE LET returned(a1) == IF a1.exc = NoExc THEN [a1 EXCEPT !.resolved = TRUE] ELSE a1
       IN returned(run_generators([a EXCEPT !.has_generated_urls = TRUE], 1))

\* App.generate_urls; a.resolved records that it has returned without an
\* exception since the last reset
generate_urls(a) ==
  IF a.exc /= NoExc THEN a
  ELSE IF a.has_generated_urls THEN raise(a, "RuntimeError")
  ELSE LET returned(a1) == IF a1.exc = NoExc THEN [a1 EXCEPT !.resolved = TRUE] ELSE a1
       IN returned(run_generators([a EXCEPT !.has_generated_urls = TRUE], 1))

\* App.add_default_generators: the loop over the _collection.yaml files
RECURSIVE add_collections(_, _)
add_collections(a, files) ==
  IF a.exc /= NoExc \/ files = <<>> THEN a
  ELSE LET f == files[1]
           url == normalize_url(remove_suffix(f.relpath, COLLECTION_CONF))
           data == site.desc[f.relpath]
       IN IF is_consumed(a, f.abspath) THEN add_collections(a, Tail(files))
          ELSE IF read_yaml_data_exc(data) /= NoExc THEN raise(a, read_yaml_data_exc(data))
          ELSE add_collections(add_generator(a, Collection(url, f.abspath, data)), Tail(files))

add_default_generators(a) ==
  LET a1 == add_collections(a, walk_dir(ContentListing, content_dir, <<>>, <<COLLECTION_CONF>>))
      a2 == add_generator(a1, MarkdownGenerator)
  IN IF site.static.present THEN add_generator(a2, StaticFileGeneraor(site.static)) ELSE a2

\* App.reset (and App.__init__, which only calls it)
reset(a) ==
  add_default_generators(
    [consumed_files |-> {}, generators |-> <<>>, url_map |-> <<>>,
     has_generated_urls |-> FALSE, has_built |-> FALSE, exc |-> NoExc, reprocessed |-> {},
     resolved |-> FALSE])

(***************************************************************************)
(* The build tree.  fs.files maps the absolute path of every file below    *)
(* build_dir to [kind, data]: a regular file and its text, a symbolic link *)
(* and its target, or a hard link and the content file it shares its inode *)
(* with.  fs.dirs is the set of directories, build_dir included when it    *)
(* exists.  fs.clobbered is the set of content files written through a     *)
(* link of the build tree.                                                 *)
(***************************************************************************)
Regular(text) == [kind |-> "file", data |-> text]

Symlink(target) == [kind |-> "symlink", data |-> target]

Hardlink(src) == [kind |-> "hardlink", data |-> src]

isdir(f, path) == path \in f.dirs

isfile(f, path) == path \in DOMAIN f.files

\* path and the directories above it
RECURSIVE Ancestors(_)
Ancestors(path) == IF dirname(path) = path THEN {path} ELSE {path} \cup Ancestors(dirname(path))

\* os.makedirs(path): the exception it raises, if any
makedirs_exc(f, path) ==
  IF isfile(f, path) \/ isdir(f, path) THEN "FileExistsError"
  ELSE IF \E q \in Ancestors(path) : isfile(f, q) THEN "NotADirectoryError"
  ELSE NoExc

os_makedirs(f, path) == [f EXCEPT !.dirs = @ \cup {q \in Ancestors(path) : StartsWith(q, build_dir)}]

\* BuildAction.makedirs(dest)
makedirs_needed(f, dest) == ~isdir(f, dirname(dest))

BuildAction_makedirs_exc(f, dest) ==
  IF makedirs_needed(f, dest) THEN makedirs_exc(f, dirname(dest)) ELSE NoExc

BuildAction_makedirs(f, dest) ==
  IF makedirs_needed(f, dest) THEN os_makedirs(f, dirname(dest)) ELSE f

PutFile(f, path, rec) ==
  [f EXCEPT !.files = [q \in (DOMAIN @) \cup {path} |-> IF q = path THEN rec ELSE @[q]]]

\* open(dest, 'w').write(text): through a link it writes the file linked to
write_exc(f, dest) == IF isdir(f, dest) THEN "IsADirectoryError" ELSE NoExc

write(f, dest, text) ==
  IF isfile(f, dest) /\ f.files[dest].kind /= "file"
  THEN [f EXCEPT !.clobbered = @ \cup {f.files[dest].data}]
  ELSE PutFile(f, dest, Regular(text))

\* the outcome of a build action: the exception raised (NoExc when none),
\* the tree after it and the value do() returns (NoStr for None)
\* TemplateError.__init__: what the exception names
TemplateError(template, url, msg) == [template |-> template, url |-> url, msg |-> msg]

NoError == TemplateError(NoStr, NoStr, NoStr)

Done(e, f, ret) == [exc |-> e, fs |-> f, ret |-> ret, error |-> NoError]

\* File.do
File_do(f, content, dest) ==
  IF BuildAction_makedirs_exc(f, dest) /= NoExc THEN Done(BuildAction_makedirs_exc(f, dest), f, NoStr)
  ELSE LET f1 == BuildAction_makedirs(f, dest)
       IN IF write_exc(f1, dest) /= NoExc THEN Done(write_exc(f1, dest), f1, NoStr)
          ELSE Done(NoExc, write(f1, dest, content), NoStr)

\* Html.do without the index.html appended
Html_do_verbatim(f, content, dest) ==
  LET r == File_do(f, content, dest)
  IN IF r.exc /= NoExc THEN r ELSE Done(NoExc, r.fs, dest)

\* Html.do
Html_do(f, content, dest) ==
  LET d1 == IF ~EndsWith(dest, <<"/">>) THEN dest \o <<"/">> ELSE dest
      d2 == d1 \o <<"i", "n", "d", "e", "x", ".", "h", "t", "m", "l">>
      r == File_do(f, content, d2)
  IN IF r.exc /= NoExc THEN r ELSE Done(NoExc, r.fs, d2)

\* App.get_content_path
get_content_path_exc(path) ==
  IF ~StartsWith(abspath(join(content_dir, path)), content_dir) THEN "ValueError" ELSE NoExc

get_content_path(path) == abspath(join(content_dir, path))

\* Copy.do, with shutil.copy
Copy_do(f, src, dest) ==
  IF BuildAction_makedirs_exc(f, dest) /= NoExc THEN Done(BuildAction_makedirs_exc(f, dest), f, NoStr)
  ELSE LET f1 == BuildAction_makedirs(f, dest)
           from == get_content_path(src)
           to == IF isdir(f1, dest) THEN join(dest, basename(from)) ELSE dest
       IN IF get_content_path_exc(src) /= NoExc THEN Done("ValueError", f1, NoStr)
          ELSE IF ~exists(from) THEN Done("FileNotFoundError", f1, NoStr)
          ELSE IF isfile(f1, to) /\ f1.files[to].kind /= "file" /\ f1.files[to].data = from
               THEN Done("SameFileError", f1, NoStr)
          ELSE IF isdir(f1, to) THEN Done("IsADirectoryError", f1, NoStr)
          ELSE Done(NoExc, write(f1, to, ContentOf(from)), NoStr)

\* Link.do (links made by the generators are never absolute)
Link_do(f, src, hard, dest) ==
  IF BuildAction_makedirs_exc(f, dest) /= NoExc THEN Done(BuildAction_makedirs_exc(f, dest), f, NoStr)
  ELSE LET f1 == BuildAction_makedirs(f, dest)
           from == get_content_path(src)
       IN IF get_content_path_exc(src) /= NoExc THEN Done("ValueError", f1, NoStr)
          ELSE IF isfile(f1, dest) \/ isdir(f1, dest) THEN Done("FileExistsError", f1, NoStr)
          ELSE IF hard /\ ~exists(from) THEN Done("FileNotFoundError", f1, NoStr)
          ELSE Done(NoExc, PutFile(f1, dest, IF hard THEN Hardlink(from) ELSE Symlink(from)), NoStr)

\* the page a view renders to (the text of the `content` variable, under a
\* template "{{ content }}")
render(view) == get(view.context, "content", NoStr)

\* TemplateNotFound.__init__; a url of None is left out of the message
TemplateNotFound(template, url) ==
  TemplateError(template, IF url = None THEN NoStr ELSE url, "Template not found")

\* TemplateView.__call__; render_template raises jinja2's TemplateNotFound
\* for a template that template_dir lacks
TemplateView_call(view) ==
  IF view.url \in {NoStr, None} THEN [exc |-> "RuntimeError", error |-> NoError, text |-> NoStr]
  ELSE LET template == view.context["template"]
       IN IF template \in site.missing
          THEN [exc |-> "TemplateNotFound", error |-> TemplateNotFound(template, None),
                text |-> NoStr]
          ELSE [exc |-> NoExc, error |-> NoError, text |-> render(view)]

\* App.get_build_path
get_build_path_exc(path) ==
  IF isabs(path) \/ ~StartsWith(abspath(join(build_dir, path)), build_dir)
  THEN "ValueError" ELSE NoExc

get_build_path(path) == abspath(join(build_dir, path))

\* the resolution of a view that checks only what is not callable
resolve_exc_callables_pass(view) ==
  IF view.kind = "object" THEN "RuntimeError" ELSE NoExc

\* the resolution of a view in App._build_url: a callable is called, and
\* what results has to be a build action or a string
resolve_exc(view) ==
  IF view.kind \notin {"TemplateView", "MarkdownView", "callable_File", "callable_str",
                       "File", "Copy", "Link", "str"}
  THEN "RuntimeError" ELSE NoExc

\* App._build_url: resolves the view to an action and runs it; ret is the
\* file written
_build_url(f, url, view) ==
  IF url = <<>> THEN Done("IndexError", f, NoStr)
  ELSE IF url[1] /= "/" THEN Done("AssertionError", f, NoStr)
  ELSE IF resolve_exc(view) /= NoExc THEN Done(resolve_exc(view), f, NoStr)
  ELSE IF view.kind \in {"TemplateView", "MarkdownView"} /\ TemplateView_call(view).exc /= NoExc
       THEN [Done(TemplateView_call(view).exc, f, NoStr)
               EXCEPT !.error = TemplateView_call(view).error]
  ELSE IF get_build_path_exc(Tail(url)) /= NoExc THEN Done("ValueError", f, NoStr)
  ELSE LET file_written(out_path, r) ==
             IF r.exc = NoExc /\ r.ret = NoStr THEN Done(NoExc, r.fs, out_path) ELSE r
           do(out_path) ==
             file_written(out_path,
               IF view.kind \in {"TemplateView", "MarkdownView", "str", "callable_str"}
               THEN Html_do(f, IF view.kind \in {"str", "callable_str"} THEN view.arg
                               ELSE TemplateView_call(view).text, out_path)
               ELSE IF view.kind \in {"File", "callable_File"} THEN File_do(f, view.arg, out_path)
               ELSE IF view.kind = "Copy" THEN Copy_do(f, view.md_file, out_path)
               ELSE Link_do(f, view.md_file, view.arg = Hard, out_path))
       IN do(get_build_path(Tail(url)))

\* a set as a sequence, in some order
RECURSIVE SetToSeq(_)
SetToSeq(S) == IF S = {} THEN <<>> ELSE LET x == CHOOSE y \in S : TRUE IN <<x>> \o SetToSeq(S \ {x})

\* os.listdir(path) is empty
listdir_empty(f, path) ==
  /\ \A q \in DOMAIN f.files : dirname(q) /= path
  /\ \A q \in f.dirs : q = path \/ dirname(q) /= path

\* os.removedirs(path), path being an empty directory: removes it and then
\* every parent that this leaves empty
RECURSIVE removedirs(_, _)
removedirs(f, path) ==
  IF isdir(f, path) /\ listdir_empty(f, path)
  THEN removedirs([f EXCEPT !.dirs = @ \ {path}], dirname(path))
  ELSE f

\* the loop of build_content that removes the files that existed before
RECURSIVE remove_stale(_, _)
remove_stale(f, stale) ==
  IF stale = {} THEN f
  ELSE LET filename == CHOOSE q \in stale : TRUE
           f1 == [f EXCEPT !.files = [q \in (DOMAIN @) \ {filename} |-> @[q]]]
           parent == dirname(filename)
           f2 == IF listdir_empty(f1, parent) THEN removedirs(f1, parent) ELSE f1
       IN remove_stale(f2, stale \ {filename})

\* the loop of build_content over the url map
RECURSIVE build_urls(_, _, _)
build_urls(b, url_map, i) ==
  IF b.exc /= NoExc \/ i > Len(url_map) THEN b
  ELSE LET built(r) ==
             IF r.exc /= NoExc THEN [b EXCEPT !.exc = r.exc, !.fs = r.fs, !.error = r.error]
             ELSE build_urls([b EXCEPT !.fs = r.fs, !.written = @ \cup {r.ret},
                                       !.yielded = Append(@, url_map[i].key)],
                             url_map, i + 1)
       IN built(_build_url(b.fs, url_map[i].key, url_map[i].value))

\* what a build did: the files found before it, those it wrote, the urls
\* it yielded and the files it removed
NoBuild ==
  [existing |-> {}, written |-> {}, yielded |-> <<>>, removed |-> {}, started |-> FALSE,
   error |-> NoError]

\* build_content that removes the stale files of a failed build too
build_content_removing_on_failure(a, f) ==
  IF a.exc /= NoExc THEN [app |-> a, fs |-> f, build |-> NoBuild]
  ELSE IF a.has_built THEN [app |-> raise(a, "RuntimeError"), fs |-> f, build |-> NoBuild]
  ELSE LET a1 == [a EXCEPT !.has_built = TRUE]
           existing_files(walked) == {walked[i].abspath : i \in 1..Len(walked)}
           finish(existing, b) ==
             IF b.exc /= NoExc
             THEN [app |-> raise(a1, b.exc), fs |-> remove_stale(b.fs, existing \ b.written),
                   build |-> [existing |-> existing, written |-> b.written,
                              yielded |-> b.yielded, removed |-> {}, started |-> TRUE,
                              error |-> b.error]]
             ELSE [app |-> a1, fs |-> remove_stale(b.fs, existing \ b.written),
                   build |-> [existing |-> existing, written |-> b.written,
                              yielded |-> b.yielded, removed |-> existing \ b.written,
                              started |-> TRUE, error |-> NoError]]
           render_all(f1) ==
             finish(existing_files(walk_dir(SetToSeq(DOMAIN f1.files), build_dir, <<>>, <<>>)),
                    build_urls([exc |-> NoExc, fs |-> f1, written |-> {}, yielded |-> <<>>,
                                error |-> NoError],
                               a1.url_map, 1))
       IN render_all(IF ~isdir(f, build_dir) THEN os_makedirs(f, build_dir) ELSE f)

\* App.build_content, iterated to its end by the caller
build_content(a, f) ==
  IF a.exc /= NoExc THEN [app |-> a, fs |-> f, build |-> NoBuild]
  ELSE IF a.has_built THEN [app |-> raise(a, "RuntimeError"), fs |-> f, build |-> NoBuild]
  ELSE LET a1 == [a EXCEPT !.has_built = TRUE]
           existing_files(walked) == {walked[i].abspath : i \in 1..Len(walked)}
           finish(existing, b) ==
             IF b.exc /= NoExc
             THEN [app |-> raise(a1, b.exc), fs |-> b.fs,
                   build |-> [existing |-> existing, written |-> b.written,
                              yielded |-> b.yielded, removed |-> {}, started |-> TRUE,
                              error |-> b.error]]
             ELSE [app |-> a1, fs |-> remove_stale(b.fs, existing \ b.written),
                   build |-> [existing |-> existing, written |-> b.written,
                              yielded |-> b.yielded, removed |-> existing \ b.written,
                              started |-> TRUE, error |-> NoError]]
           render_all(f1) ==
             finish(existing_files(walk_dir(SetToSeq(DOMAIN f1.files), build_dir, <<>>, <<>>)),
                    build_urls([exc |-> NoExc, fs |-> f1, written |-> {}, yielded |-> <<>>,
                                error |-> NoError],
                               a1.url_map, 1))
       IN render_all(IF ~isdir(f, build_dir) THEN os_makedirs(f, build_dir) ELSE f)

\* App.needs_reset
needs_reset(a) == a.has_built \/ a.has_generated_urls

\* generate that builds whatever the resolution raised
generate_past_errors(a, f) ==
  IF needs_reset(a) THEN [app |-> raise(a, "RuntimeError"), fs |-> f, build |-> NoBuild]
  ELSE build_content([generate_urls(a) EXCEPT !.exc = NoExc], f)

\* App.generate
generate(a, f) ==
  IF needs_reset(a) THEN [app |-> raise(a, "RuntimeError"), fs |-> f, build |-> NoBuild]
  ELSE build_content(generate_urls(a), f)

(***************************************************************************)
(* The sites and build trees a behaviour starts from                       *)
(***************************************************************************)
NameN == <<"n">>

NameM == <<"m">>

FormatZ == <<Lit(<<"z">>), Var("slug")>>

MarkdownUniverse == {F_index, F_hidden, F_b_x}

U_bx == <<"/", "b", "/", "x", "/">>

U_u == <<"/", "u", "/">>

\* the (url, view) pair the caller passes to add_url itself: a callable
\* returning a string, at the url of the item x of the collection /b/
UserEntries == {[url |-> U_bx, view |-> [File(<<"2">>) EXCEPT !.kind = "callable_str"]]}

Site(files, badfm, desc, static) ==
  [files |-> files, badfm |-> badfm, desc |-> desc, static |-> static, fm |-> EmptyDict,
   entries |-> UserEntries, missing |-> {}]

\* the descriptors of /b/ and of /b/s/
DescriptorsB ==
  {Descriptor(name, pages, url_format) :
     name \in {NoStr, NameN},
     pages \in {<<>>, <<Page(<<"x">>)>>, <<Page(<<"p">>)>>},
     url_format \in {<<>>, FormatZ}}

DescriptorsBS ==
  {Descriptor(name, <<>>, <<>>) : name \in {NoStr, NameN, NameM}}
  \cup {Descriptor(NoStr, <<Page(<<"i", "n", "d", "e", "x">>)>>, <<>>)}

\* sites without collections: every choice of Markdown files
PlainSites == {Site(files, {}, EmptyDict, NoStatic) : files \in SUBSET MarkdownUniverse}

\* sites with the collection /b/, alone or with /b/s/ nested in it
CollectionSites ==
  {Site(ContentUniverse \ {F_bs_yaml}, {}, [f \in {F_b_yaml} |-> d], NoStatic) :
     d \in DescriptorsB}
  \cup
  {Site(ContentUniverse, {}, [f \in {F_b_yaml, F_bs_yaml} |-> IF f = F_b_yaml THEN d ELSE e],
        NoStatic) : d \in {x \in DescriptorsB : x.pages = <<>>}, e \in DescriptorsBS}

\* sites with static files, copied or linked
StaticSites ==
  {Site({F_index, F_txt}, {}, EmptyDict, StaticConf(link, link_above, link_type)) :
     link \in BOOLEAN, link_above \in {0}, link_type \in {"soft", "hard"}}

\* sites with a Markdown file whose front matter is malformed
BadSites ==
  {Site({F_index, F_b_x, F_b_yaml}, {bad}, [f \in {F_b_yaml} |-> Descriptor(NoStr, <<>>, <<>>)],
        NoStatic) : bad \in {F_index, F_b_x}}

Sites == PlainSites \cup CollectionSites \cup StaticSites \cup BadSites

B_stale == build_dir \o <<"/", "q", "/", "i", "n", "d", "e", "x", ".", "h", "t", "m", "l">>

B_dot == build_dir \o <<"/", ".", "k">>

Old == <<"o", "l", "d">>

Tree(files, dirs) == [files |-> files, dirs |-> dirs, clobbered |-> {}]

\* the build directory before the first run: absent, or left by an earlier
\* run over other content
InitTrees ==
  {Tree(EmptyDict, {}),
   Tree([q \in {B_stale, B_dot} |-> Regular(Old)], {build_dir, dirname(B_stale)})}

(***************************************************************************)
(* The state machine: the operations a caller runs on one App              *)
(***************************************************************************)
\* the generator the caller passes to add_generator itself: a callable
\* named n that adds the url /u/
UserGenerators == {Generator("UserGenerator", TRUE, NameN, U_u, NoStr)}

NoApp ==
  [consumed_files |-> {}, generators |-> <<>>, url_map |-> <<>>,
   has_generated_urls |-> FALSE, has_built |-> FALSE, exc |-> NoExc, reprocessed |-> {},
   resolved |-> FALSE]

\* the operation that led to the state, its url argument and, when it
\* reached build_content, what the build did
Op(name, url, build) == [name |-> name, url |-> url, build |-> build]

\* the url map and the tree of the last build that ran to its end
NoLast == [done |-> FALSE, url_map |-> <<>>, fs |-> Tree(EmptyDict, {})]

Completed(r) == r.build.started /\ r.app.exc = NoExc

LastAfter(r) ==
  IF Completed(r) THEN [done |-> TRUE, url_map |-> r.app.url_map, fs |-> r.fs] ELSE last

Init ==
  /\ site \in Sites
  /\ fs \in InitTrees
  /\ inst = "none"
  /\ app = NoApp
  /\ op = Op("none", NoStr, NoBuild)
  /\ last = NoLast
  /\ input = NoStr
  /\ results = <<>>

\* App(root_dir): no instance exists when __init__ raises
Construct ==
  /\ inst = "none"
  /\ app' = reset(NoApp)
  /\ inst' = IF app'.exc = NoExc THEN "live" ELSE "none"
  /\ op' = Op("construct", NoStr, NoBuild)
  /\ UNCHANGED <<site, fs, last, input, results>>

Reset ==
  /\ inst = "live"
  /\ app' = reset(app)
  /\ op' = Op("reset", NoStr, NoBuild)
  /\ UNCHANGED <<site, inst, fs, last, input, results>>

AddUrl ==
  /\ inst = "live"
  /\ \E e \in site.entries :
       /\ app' = add_url([app EXCEPT !.exc = NoExc], e.url, e.view)
       /\ op' = Op("add_url", e.url, NoBuild)
  /\ UNCHANGED <<site, inst, fs, last, input, results>>

AddGenerator ==
  /\ inst = "live"
  /\ \E g \in UserGenerators : app' = add_generator([app EXCEPT !.exc = NoExc], g)
  /\ op' = Op("add_generator", NoStr, NoBuild)
  /\ UNCHANGED <<site, inst, fs, last, input, results>>

GenerateUrls ==
  /\ inst = "live"
  /\ app' = generate_urls([app EXCEPT !.exc = NoExc])
  /\ op' = Op("generate_urls", NoStr, NoBuild)
  /\ UNCHANGED <<site, inst, fs, last, input, results>>

BuildContent ==
  /\ inst = "live"
  /\ LET done(r) == /\ app' = r.app
                    /\ fs' = r.fs
                    /\ op' = Op("build_content", NoStr, r.build)
                    /\ last' = LastAfter(r)
     IN done(build_content([app EXCEPT !.exc = NoExc], fs))
  /\ UNCHANGED <<site, inst, input, results>>

Generate ==
  /\ inst = "live"
  /\ LET done(r) == /\ app' = r.app
                    /\ fs' = r.fs
                    /\ op' = Op("generate", NoStr, r.build)
                    /\ last' = LastAfter(r)
     IN done(generate([app EXCEPT !.exc = NoExc], fs))
  /\ UNCHANGED <<site, inst, input, results>>

Next ==
  \/ Construct
  \/ Reset
  \/ AddUrl
  \/ AddGenerator
  \/ GenerateUrls
  \/ BuildContent
  \/ Generate

Spec == Init /\ [][Next]_vars

(***************************************************************************)
(* Properties of the URL map and of the two phases                         *)
(***************************************************************************)

IsPrefix(s, t) == Len(s) <= Len(t) /\ \A i \in 1..Len(s) : t[i] = s[i]

NoDuplicateKeys(map) == \A i, j \in 1..Len(map) : map[i].key = map[j].key => i = j

Mutators == {"add_url", "add_generator", "generate_urls", "build_content", "generate"}

\* C1: add_url raises UrlConflictError as soon as the url is already a key of
\* the URL map and leaves the map as it was; whatever the callers and the
\* generators insert, every entry keeps the position and the view of its first
\* insertion until the next reset, and no key occurs twice.
C1_FirstInsertionKept ==
  [][op'.name \in Mutators =>
       /\ IsPrefix(app.url_map, app'.url_map)
       /\ NoDuplicateKeys(app'.url_map)
       /\ (op'.name = "add_url" /\ op'.url \in Keys(app.url_map)) =>
            (app'.exc = "UrlConflictError" /\ app'.url_map = app.url_map)]_vars

\* a caller's add_url for /b/x/ is refused because the Markdown generator
\* has registered the view of /b/x.markdown under that url
C1_Witness ==
  /\ op.name = "add_url"
  /\ op.url = U_bx
  /\ app.exc = "UrlConflictError"
  /\ Lookup(app.url_map, U_bx).kind = "MarkdownView"

\* C2 (as claimed): a build starts only on an instance whose generate_urls has
\* returned without an exception since the last reset, and from the start of
\* the build to the next reset neither the URL map nor the consumed-file set
\* changes.
C2_BuildOnlyAfterResolve ==
  [][op'.name \in Mutators =>
       /\ op'.build.started => app'.resolved
       /\ (app.has_built /\ op'.name /= "add_url") =>
            (app'.url_map = app.url_map /\ app'.consumed_files = app.consumed_files)]_vars

MarkdownEntries(map) == {i \in 1..Len(map) : map[i].value.kind = "MarkdownView"}

\* the Markdown files of the content tree that walk_dir does not ignore
MarkdownContent ==
  {f \in site.files :
     /\ \/ EndsWith(f, <<".", "m", "d">>)
        \/ EndsWith(f, <<".", "m", "a", "r", "k", "d", "o", "w", "n">>)
     /\ basename(f)[1] /= "."
     /\ basename(f)[Len(basename(f))] /= "~"}

\* C4 (as claimed): no generator builds a view from a file that is already
\* consumed, and once generate_urls has returned no content file is the
\* source of two entries of the URL map.
C4_NoFileProcessedTwice ==
  /\ app.reprocessed = {}
  /\ app.resolved =>
       \A i, j \in MarkdownEntries(app.url_map) :
         app.url_map[i].value.md_file = app.url_map[j].value.md_file => i = j

\* C5: once generate_urls has returned without an exception, every Markdown
\* file of the content tree that is not ignored is in the consumed set and is
\* the source of a view of the URL map.
C5_MarkdownAllClaimed ==
  app.resolved =>
    \A f \in MarkdownContent :
      /\ abs_content(f) \in app.consumed_files
      /\ \E i \in MarkdownEntries(app.url_map) : app.url_map[i].value.md_file = abs_content(f)

\* resolution of a site with a collection: one Markdown file became an item
\* of the collection and another a plain Markdown view, an ignored one none
C5_Witness ==
  /\ app.resolved
  /\ op.name = "generate_urls"
  /\ F_hidden \in site.files
  /\ \E i, j \in MarkdownEntries(app.url_map) :
       /\ app.url_map[i].value.collection /= NoStr
       /\ app.url_map[j].value.collection = NoStr
       /\ {app.url_map[i].value.md_file, app.url_map[j].value.md_file}
            \subseteq {abs_content(f) : f \in MarkdownContent}

(***************************************************************************)
(* Properties of the build                                                 *)
(***************************************************************************)

\* the step is a build that ran to its end
BuildCompletes == op'.build.started /\ app'.exc = NoExc

\* C6 (as claimed): when a build has run to its end, every file that was in
\* the build directory before it and that it did not write is gone, no
\* directory that held such a file is left empty, and every file it wrote is
\* present.
C6_BuildMirrorsUrlMap ==
  [][BuildCompletes =>
       /\ \A p \in (DOMAIN fs.files) \ op'.build.written :
            /\ p \notin DOMAIN fs'.files
            /\ isdir(fs', dirname(p)) => ~listdir_empty(fs', dirname(p))
       /\ op'.build.written \subseteq DOMAIN fs'.files]_vars

\* C7 (as claimed): resolving and building again over the tree that the last
\* completed build left, with the same URL map, succeeds and leaves the same
\* files with the same contents.
C7_SecondRunSameTree ==
  [][(/\ op'.build.started
      /\ app'.resolved
      /\ last.done
      /\ last.fs = fs
      /\ last.url_map = app'.url_map)
     => (app'.exc = NoExc /\ fs'.files = fs.files /\ fs'.clobbered = fs.clobbered)]_vars

\* C8: nothing is created, overwritten or deleted in the build tree by the
\* construction of the instance, by reset, by generate_urls, or by a
\* generate() whose resolution did not return normally.
C8_NoOutputOnEarlyError ==
  [][(\/ op'.name \in {"construct", "reset", "generate_urls"}
      \/ op'.name = "generate" /\ ~app'.resolved)
     => fs' = fs]_vars

\* generate() stopped by a FrontmatterError of the resolution, over a build
\* directory that holds the files of an earlier run
C8_Witness ==
  /\ op.name = "generate"
  /\ app.exc = "FrontmatterError"
  /\ ~op.build.started
  /\ {B_stale, B_dot} \subseteq DOMAIN fs.files
  /\ ~last.done

(***************************************************************************)
(* Properties of the registration of generators                            *)
(***************************************************************************)

UniqueNames(gens) ==
  \A i, j \in 1..Len(gens) :
    (gens[i].has_name /\ gens[j].has_name /\ gens[i].name = gens[j].name) => i = j

NameTaken(gens, g) ==
  g.has_name /\ \E i \in 1..Len(gens) : gens[i].has_name /\ gens[i].name = g.name

\* C9: the generators registered never share a name; add_generator with a
\* name that is taken raises ConfigError and leaves the generator list, the
\* URL map and the consumed set as they were; when the registration of the
\* default generators is refused, no generator has been invoked.
C9_DuplicateNameRefused ==
  [][/\ UniqueNames(app'.generators)
     /\ (op'.name = "add_generator" /\ \A g \in UserGenerators : NameTaken(app.generators, g)) =>
          /\ app'.exc = "ConfigError"
          /\ app' = [app EXCEPT !.exc = "ConfigError"]
     /\ (op'.name \in {"construct", "reset"} /\ app'.exc = "ConfigError") =>
          /\ app'.url_map = <<>> /\ app'.consumed_files = {}
          /\ ~app'.has_generated_urls
          /\ Len(app'.generators) < Cardinality(DOMAIN site.desc) + 1]_vars

\* a generator named n is refused on an instance whose collection /b/ is
\* named n
C9_Witness ==
  /\ op.name = "add_generator"
  /\ app.exc = "ConfigError"
  /\ \E i \in 1..Len(app.generators) :
       app.generators[i].cls = "Collection" /\ app.generators[i].name = NameN

\* C10 (as claimed): a site whose collections all omit `name` is registered
\* without a duplicate-name ConfigError, however many collections it has.
C10_UnnamedCollectionsCoexist ==
  (/\ op.name = "construct"
   /\ Cardinality(DOMAIN site.desc) >= 2
   /\ \A f \in DOMAIN site.desc : site.desc[f].name = NoStr)
  => app.exc /= "ConfigError"

(***************************************************************************)
(* normalize_url applied on its own, to paths made of a few tokens         *)
(***************************************************************************)

MaxUrlTokens == 4

MaxApplications == 2

UrlTokens == {<<"/">>, <<".">>, <<"a">>, <<"i", "n", "d", "e", "x">>, <<".", "m", "d">>}

\* the paths of at most n tokens
RECURSIVE UrlPaths(_)
UrlPaths(n) ==
  IF n = 0 THEN {<<>>}
  ELSE UrlPaths(n - 1) \cup {p \o t : p \in UrlPaths(n - 1), t \in UrlTokens}

InitUrl ==
  /\ input \in UrlPaths(MaxUrlTokens)
  /\ results = <<>>
  /\ site = Site({}, {}, EmptyDict, NoStatic)
  /\ fs = Tree(EmptyDict, {})
  /\ inst = "none"
  /\ app = NoApp
  /\ op = Op("none", NoStr, NoBuild)
  /\ last = NoLast

\* normalize_url(path), then normalize_url of what it returned
NormalizeUrl ==
  /\ Len(results) < MaxApplications
  /\ results' = Append(results, normalize_url(IF results = <<>> THEN input ELSE results[Len(results)]))
  /\ op' = Op("normalize_url", NoStr, NoBuild)
  /\ UNCHANGED <<site, inst, app, fs, last, input>>

NextUrl == NormalizeUrl

SpecUrl == InitUrl /\ [][NextUrl]_vars

\* C11: normalize_url applied to its own result returns that result.
C11_NormalizeIdempotent ==
  (op.name = "normalize_url" /\ Len(results) >= 2) => results[2] = results[1]

\* ".//index" loses its leading dot, its index segment and its double slash
\* in the first application, and the second application changes nothing
C11_Witness ==
  /\ op.name = "normalize_url"
  /\ input = <<".", "/", "/", "i", "n", "d", "e", "x">>
  /\ results = << <<"/">>, <<"/">> >>

\* the segments of a path: what stands between its slashes, empty pieces left out
Segments(s) == SelectSeq(Split(s, "/"), LAMBDA c : c /= <<>>)

\* the segments normalize_url is to keep: all but a first "." of a path that
\* starts with "./" and a last "index" of a path that ends with "/index"
KeptSegments(path) ==
  LET segs == Segments(path)
      first == IF StartsWith(path, <<".", "/">>) THEN 2 ELSE 1
      end == IF EndsWith(path, <<"/", "i", "n", "d", "e", "x">>) THEN Len(segs) - 1 ELSE Len(segs)
  IN SubSeq(segs, first, end)

\* C12: the url normalize_url returns starts with "/", ends with "/", has no
\* "//", and its segments are those of the path, extensions included, without
\* one leading "." segment when the path starts with "./" and without the
\* final "index" exactly when the path ends with "/index".
C12_NormalizeShape ==
  (op.name = "normalize_url" /\ Len(results) >= 1) =>
    /\ StartsWith(results[1], <<"/">>)
    /\ EndsWith(results[1], <<"/">>)
    /\ ~Contains(results[1], <<"/", "/">>)
    /\ Segments(results[1]) = KeptSegments(input)

\* "a/index.md" keeps its last segment and its extension
C12_Witness ==
  /\ op.name = "normalize_url"
  /\ input = <<"a", "/", "i", "n", "d", "e", "x", ".", "m", "d">>
  /\ Len(results) >= 1
  /\ results[1] = <<"/", "a", "/", "i", "n", "d", "e", "x", ".", "m", "d", "/">>


(***************************************************************************)
(* Sites whose collection context, page context and front matter define    *)
(* the same key                                                            *)
(***************************************************************************)
CtxKeys == {"url", "template", "slug", "date", "content"}

\* the value a source gives its key: c, p or f, after the source
FromCollection == <<"c">>

FromPage == <<"p">>

FromFrontMatter == <<"f">>

TemplateT == <<"t", ".", "h", "t", "m", "l">>

OneKey(k, v) == [x \in {k} |-> v]

ContextDicts(k, v) == {EmptyDict, OneKey(k, v)}

ContextFiles == {F_index, F_b_yaml, F_b_x, F_b_a, F_b_d}

\* the `pages` lists: none, the page a (which has the file /b/a.md) or the
\* page p (which has no file); the page a may name a template of its own
ContextTitles(k) ==
  IF k = "url" THEN {<<"a">>, <<"p">>}
  ELSE IF k = "content" THEN {<<"p">>}
  ELSE IF k = "date" THEN {}
  ELSE {<<"a">>}

ContextPages(k) ==
  {<<>>}
  \cup {<<[Page(t) EXCEPT !.template = tpl, !.context = pc]>> :
          t \in ContextTitles(k),
          tpl \in IF k = "template" THEN {NoStr, TemplateT} ELSE {NoStr},
          pc \in ContextDicts(k, FromPage)}

ContextSite(cc, pages, fmd) ==
  [Site(ContextFiles, {},
        [f \in {F_b_yaml} |-> [Descriptor(NoStr, pages, <<>>) EXCEPT !.context = cc]],
        NoStatic)
     EXCEPT !.fm = [f \in ContextFiles \ {F_b_yaml} |-> fmd]]

ContextSites ==
  UNION {{ContextSite(cc, pages, fmd) :
            cc \in ContextDicts(k, FromCollection),
            pages \in ContextPages(k),
            fmd \in ContextDicts(k, FromFrontMatter)} : k \in CtxKeys}

InitContext ==
  /\ site \in ContextSites
  /\ fs = Tree(EmptyDict, {})
  /\ inst = "none"
  /\ app = NoApp
  /\ op = Op("none", NoStr, NoBuild)
  /\ last = NoLast
  /\ input = NoStr
  /\ results = <<>>

SpecContext == InitContext /\ [][Next]_vars

\* the entries of a url map that are Views
ViewEntries(map) ==
  {i \in 1..Len(map) : map[i].value.kind \in {"TemplateView", "MarkdownView"}}

\* the descriptor of the collection that owns a view
OwnerData(view) == site.desc[view.collection \o COLLECTION_CONF]

\* the page declaration a view of a collection was registered for, if any
IsPageView(view) ==
  /\ view.collection \notin {NoStr, None}
  /\ \E i \in 1..Len(OwnerData(view).pages) :
       normalize_url(view.collection \o OwnerData(view).pages[i].title) = view.url

PageOfView(view) ==
  OwnerData(view).pages[CHOOSE i \in 1..Len(OwnerData(view).pages) :
    normalize_url(view.collection \o OwnerData(view).pages[i].title) = view.url]

\* the five sources of a view's context, lowest first
BuiltinSource(view) ==
  [k \in {"self", "url", "app", "collections", "collection", "template", "context"} |->
     IF k = "url" THEN view.url ELSE IF k = "template" THEN DEFAULT_TEMPLATE ELSE Obj]

CollectionSource(view) ==
  IF view.collection \in {NoStr, None} THEN EmptyDict ELSE OwnerData(view).context

\* what the page declaration supplies: its context (for a page without a
\* file, with an empty `content` unless it has one) and its template
PageSource(view) ==
  IF ~IsPageView(view) THEN EmptyDict
  ELSE LET page == PageOfView(view)
           keys == DOMAIN page.context
                   \cup (IF page.template /= NoStr THEN {"template"} ELSE {})
                   \cup (IF view.kind = "TemplateView" THEN {"content"} ELSE {})
       IN [k \in keys |->
             IF k = "template" /\ page.template /= NoStr THEN page.template
             ELSE IF k \in DOMAIN page.context THEN page.context[k]
             ELSE NoStr]

\* what the Markdown file supplies apart from its front matter: the date
\* and slug of its name, and its body
FileSource(view) ==
  IF view.kind /= "MarkdownView" THEN EmptyDict
  ELSE LET info == extract_info_from_filename(basename(view.md_file))
       IN [k \in DOMAIN info \cup {"content", "frontmatter"} |->
             IF k \in DOMAIN info THEN info[k]
             ELSE IF k = "content" THEN ContentOf(view.md_file) ELSE Obj]

FrontMatterSource(view) ==
  IF view.kind /= "MarkdownView" THEN EmptyDict ELSE FrontMatterOf(view.md_file)

Sources(view) ==
  <<BuiltinSource(view), CollectionSource(view), PageSource(view), FileSource(view),
    FrontMatterSource(view)>>

\* the value of a key in the highest source that defines it
Highest(sources, k) ==
  sources[CHOOSE i \in 1..Len(sources) :
            /\ k \in DOMAIN sources[i]
            /\ \A j \in (i + 1)..Len(sources) : k \notin DOMAIN sources[j]][k]

Layered(view) ==
  \A k \in UNION {DOMAIN Sources(view)[i] : i \in 1..5} :
    k \in DOMAIN view.context /\ view.context[k] = Highest(Sources(view), k)

\* C13 (as claimed): after resolution, in the context of every View of the
\* url map each key has the value of the highest source that defines it, in
\* the order built-in variables, collection context, page context, the
\* file's date and slug, front matter; front matter wins over all.
C13_ContextLayering ==
  (app.resolved /\ app.exc = NoExc) =>
    \A i \in ViewEntries(app.url_map) : Layered(app.url_map[i].value)

\* C14 (as claimed): after resolution, the context of every View of the url
\* map has a `template` key, and a `url` key whose value is the url the View
\* is registered under.
C14_ContextHasUrlAndTemplate ==
  (app.resolved /\ app.exc = NoExc) =>
    \A i \in ViewEntries(app.url_map) :
      /\ "template" \in DOMAIN app.url_map[i].value.context
      /\ "url" \in DOMAIN app.url_map[i].value.context
      /\ app.url_map[i].value.context["url"] = app.url_map[i].key

(***************************************************************************)
(* Sites with collections at /, /b/ and /b/s/ over Markdown files at       *)
(* every depth                                                             *)
(***************************************************************************)
NameR == <<"r">>

ItemMarkdown == {F_index, F_hidden, F_b_x, F_b_a, F_b_index, F_bs_index, F_bs_y}

ItemDescriptors == [f \in {F_yaml, F_b_yaml, F_bs_yaml} |->
                      Descriptor(IF f = F_yaml THEN NameR ELSE IF f = F_b_yaml THEN NameN ELSE NameM,
                                 <<>>, <<>>)]

ItemSites ==
  {Site(files \cup yamls, {}, [f \in yamls |-> ItemDescriptors[f]], NoStatic) :
     files \in {ItemMarkdown, ItemMarkdown \ {F_index}},
     yamls \in SUBSET {F_yaml, F_b_yaml, F_bs_yaml} \ {{}}}

InitItems ==
  /\ site \in ItemSites
  /\ fs = Tree(EmptyDict, {})
  /\ inst = "none"
  /\ app = NoApp
  /\ op = Op("none", NoStr, NoBuild)
  /\ last = NoLast
  /\ input = NoStr
  /\ results = <<>>

SpecItems == InitItems /\ [][Next]_vars

RECURSIVE JoinSegments(_)
JoinSegments(segs) ==
  IF segs = <<>> THEN <<"/">> ELSE JoinSegments(Upto(segs, Len(segs) - 1)) \o segs[Len(segs)] \o <<"/">>

\* the url of a content file without its last path segment; NoStr when the
\* url has no segment to remove
ParentUrl(relpath) ==
  LET segs == Segments(normalize_url(remove_extension(relpath)))
  IN IF segs = <<>> THEN NoStr ELSE JoinSegments(Upto(segs, Len(segs) - 1))

\* the Markdown files present that the walk does not ignore
WalkedMarkdown ==
  {f \in site.files :
     /\ EndsWith(f, <<".", "m", "d">>) \/ EndsWith(f, <<".", "m", "a", "r", "k", "d", "o", "w", "n">>)
     /\ ~fnmatch_one_of(basename(f), IGNORED_FILES)}

CollectionsOf(a) == {i \in 1..Len(a.generators) : a.generators[i].cls = "Collection"}

ItemFilesOf(gen) == {gen.items[i].md_file : i \in 1..Len(gen.items)}

\* C15 (as claimed): when the generators have run, a Markdown file under a
\* collection's prefix is an item of the collection exactly when its url
\* without the last segment is the collection's url, and a file that is the
\* item of no collection has the View of the catch-all Markdown generator.
C15_ItemsAreDirectChildren ==
  (op.name = "generate_urls" /\ app.exc \in {NoExc, "ValueError"}) =>
    /\ app.resolved
    /\ \A i \in CollectionsOf(app) : \A f \in WalkedMarkdown :
         StartsWith(f, app.generators[i].url) =>
           (abs_content(f) \in ItemFilesOf(app.generators[i])
              <=> ParentUrl(f) = app.generators[i].url)
    /\ \A f \in WalkedMarkdown :
         (\A i \in CollectionsOf(app) : ParentUrl(f) /= app.generators[i].url) =>
           \E j \in ViewEntries(app.url_map) :
             /\ app.url_map[j].value.md_file = abs_content(f)
             /\ app.url_map[j].value.collection = NoStr

(***************************************************************************)
(* Sites whose collection /b/ sorts its three items by the front matter    *)
(* key k                                                                   *)
(***************************************************************************)
\* context keys, and so the `order` of a descriptor, are strings of the model
OrderK == "k"

\* the front matter of an item: without the key, or with one of the values
OrderFrontMatter == {EmptyDict} \cup {OneKey(OrderK, v) : v \in {<<"a">>, <<"B">>, <<"b">>}}

OrderSites ==
  {[Site({F_b_yaml, F_b_x, F_b_a, F_b_d}, {},
         [f \in {F_b_yaml} |-> [Descriptor(NoStr, <<>>, <<>>) EXCEPT !.order = OrderK]],
         NoStatic)
      EXCEPT !.fm = [f \in {F_b_x, F_b_a, F_b_d} |->
                       IF f = F_b_x THEN x ELSE IF f = F_b_a THEN y ELSE z]] :
     x \in OrderFrontMatter, y \in OrderFrontMatter, z \in OrderFrontMatter}

InitOrder ==
  /\ site \in OrderSites
  /\ fs = Tree(EmptyDict, {})
  /\ inst = "none"
  /\ app = NoApp
  /\ op = Op("none", NoStr, NoBuild)
  /\ last = NoLast
  /\ input = NoStr
  /\ results = <<>>

SpecOrder == InitOrder /\ [][Next]_vars

\* the place of an item's file in the walk that discovered the items
Discovered(item) ==
  CHOOSE n \in 1..Len(ContentOrder) : abs_content(ContentOrder[n]) = item.md_file

\* the lower-cased value of the order key in an item's context, empty
\* when the context has no such key
OrderKey(gen, item) ==
  IF gen.item_order \in DOMAIN item.context
  THEN lower(item.context[gen.item_order]) ELSE <<>>

SortedStably(gen) ==
  \A i, j \in 1..Len(gen.items) :
    i < j =>
      /\ ~StrLess(OrderKey(gen, gen.items[j]), OrderKey(gen, gen.items[i]))
      /\ OrderKey(gen, gen.items[i]) = OrderKey(gen, gen.items[j])
           => Discovered(gen.items[i]) < Discovered(gen.items[j])

\* C16: once the generators have run, and so throughout the build, the items
\* of a collection that declares `order` are the discovered items, each once,
\* in non-decreasing order of the lower-cased value of that context key (empty
\* when missing), items with equal keys in discovery order.
C16_ItemsSortedStably ==
  (app.resolved /\ app.exc = NoExc) =>
    \A g \in CollectionsOf(app) :
      app.generators[g].item_order /= "" =>
        /\ Len(app.generators[g].items) = Cardinality(ItemFilesOf(app.generators[g]))
        /\ ItemFilesOf(app.generators[g])
             = {abs_content(f) : f \in {h \in WalkedMarkdown : ParentUrl(h) = app.generators[g].url}}
        /\ SortedStably(app.generators[g])

\* the build runs over /b/ sorted as p (key a), x (key b), a (key B): the sort
\* moved p to the front and kept x before a
C16_Witness ==
  /\ op.build.started
  /\ app.exc = NoExc
  /\ \E g \in CollectionsOf(app) :
       /\ app.generators[g].item_order = OrderK
       /\ [n \in 1..Len(app.generators[g].items) |-> app.generators[g].items[n].md_file]
            = <<abs_content(F_b_d), abs_content(F_b_x), abs_content(F_b_a)>>
       /\ app.generators[g].items[2].context["k"] = <<"b">>
       /\ app.generators[g].items[3].context["k"] = <<"B">>

(***************************************************************************)
(* clearice/views.py: read_frontmatter_file, applied on its own to the     *)
(* text of a Markdown file                                                 *)
(***************************************************************************)
Newline == "\n"

\* list(f): the lines of a text, each with its newline
RECURSIVE readlines(_)
readlines(text) ==
  IF text = <<>> THEN <<>>
  ELSE IF \E n \in 1..Len(text) : text[n] = Newline
       THEN LET n == CHOOSE n \in 1..Len(text) :
                       text[n] = Newline /\ \A m \in 1..(n - 1) : text[m] /= Newline
            IN <<SubSeq(text, 1, n)>> \o readlines(From(text, n))
  ELSE <<text>>

\* ''.join(lines)
RECURSIVE joinlines(_)
joinlines(lines) == IF lines = <<>> THEN <<>> ELSE lines[1] \o joinlines(Tail(lines))

Whitespace == {" ", Newline}

\* str.strip()
RECURSIVE strip(_)
strip(s) ==
  IF s = <<>> THEN s
  ELSE IF s[1] \in Whitespace THEN strip(Tail(s))
  ELSE IF s[Len(s)] \in Whitespace THEN strip(Upto(s, Len(s) - 1))
  ELSE s

\* list.index(x, start), with -1 for the ValueError of a missing element
index(lines, x, start) ==
  IF \E n \in (start + 1)..Len(lines) : lines[n] = x
  THEN (CHOOSE n \in (start + 1)..Len(lines) :
          lines[n] = x /\ \A m \in (start + 1)..(n - 1) : lines[m] /= x) - 1
  ELSE -1

marker == <<"-", "-", "-", Newline>>

NoMarkers == [found |-> FALSE, fm_start |-> -1, fm_end |-> -1]

\* the search for the two markers without the allowance for a last line
\* that has no newline
find_markers_newline_only(lines) ==
  LET fm_start == index(lines, marker, 0)
      fm_end == IF fm_start = -1 THEN -1 ELSE index(lines, marker, fm_start + 1)
  IN IF fm_start /= -1 /\ fm_end /= -1
     THEN [found |-> TRUE, fm_start |-> fm_start, fm_end |-> fm_end]
     ELSE NoMarkers

\* read_frontmatter_file: the search for the two markers
find_markers(lines) ==
  LET fm_start == index(lines, marker, 0)
      fm_end == IF fm_start = -1 THEN -1 ELSE index(lines, marker, fm_start + 1)
  IN IF fm_start /= -1 /\ fm_end /= -1
     THEN [found |-> TRUE, fm_start |-> fm_start, fm_end |-> fm_end]
     ELSE IF fm_start /= -1 /\ lines[Len(lines)] = Upto(marker, -1)
     THEN [found |-> TRUE, fm_start |-> fm_start, fm_end |-> Len(lines) - 1]
     ELSE NoMarkers

(***************************************************************************)
(* yaml.load on a front matter region whose lines are blank, a document    *)
(* start (--- at the margin), a block mapping entry (k: v), a block        *)
(* sequence entry (- a) or the text of a plain scalar                      *)
(***************************************************************************)
\* the text of a line without its newline and the spaces at its end
RECURSIVE rstrip(_)
rstrip(s) == IF s /= <<>> /\ s[Len(s)] \in Whitespace THEN rstrip(Upto(s, Len(s) - 1)) ELSE s

IsDocStart(line) ==
  StartsWith(line, <<"-", "-", "-">>) /\ (Len(line) = 3 \/ line[4] \in Whitespace)

IsSeqEntry(line) == line = <<"-">> \/ StartsWith(line, <<"-", " ">>)

IsMapEntry(line) == Contains(line, <<":", " ">>) \/ EndsWith(line, <<":">>)

\* the value of a mapping entry k: v
EntryValue(line) ==
  LET n == CHOOSE n \in 1..Len(line) : line[n] = ":" /\ \A m \in 1..(n - 1) : line[m] /= ":"
  IN strip(From(line, n))

\* a value that the date form of YAML's timestamp pattern matches
IsTimestamp(v) ==
  LET parts == Split(v, "-")
  IN /\ Len(parts) = 3
     /\ Len(parts[1]) = 4 /\ AllDigits(parts[1])
     /\ Len(parts[2]) = 2 /\ AllDigits(parts[2])
     /\ Len(parts[3]) = 2 /\ AllDigits(parts[3])

\* the events of a region: S, M, Q for a scalar line, a mapping entry and a
\* sequence entry, D for a document start, V for a mapping entry whose
\* value is a timestamp that is no date
RECURSIVE yaml_events(_)
yaml_events(lines) ==
  IF lines = <<>> THEN <<>>
  ELSE LET line == rstrip(lines[1])
           rest == yaml_events(Tail(lines))
       IN IF strip(line) = <<>> THEN rest
          ELSE IF IsDocStart(line)
               THEN (IF strip(From(line, 3)) = <<>> THEN <<"D">> ELSE <<"D", "S">>) \o rest
          ELSE IF IsSeqEntry(line) THEN <<"Q">> \o rest
          ELSE IF IsMapEntry(line)
               THEN (IF IsTimestamp(EntryValue(line)) /\ ~StrptimeOk(EntryValue(line))
                     THEN <<"V">> ELSE <<"M">>) \o rest
          ELSE <<"S">> \o rest

\* the mapping of the entries k: v of a region, a later entry replacing an
\* earlier one of the same key
RECURSIVE yaml_mapping(_)
yaml_mapping(lines) ==
  IF lines = <<>> THEN EmptyDict
  ELSE LET line == rstrip(lines[Len(lines)])
           before == yaml_mapping(Upto(lines, Len(lines) - 1))
       IN IF IsMapEntry(line) /\ ~IsDocStart(line) /\ ~IsSeqEntry(line)
          THEN update(before, OneKey(line[1], EntryValue(line)))
          ELSE before

\* yaml.load(text): the exception it ends with (a YAMLError of the scanner,
\* parser or composer, or the ValueError of a constructor), or the type and
\* value of the document
yaml_load(text) ==
  LET lines == readlines(text)
      events == yaml_events(lines)
      doc == IF events /= <<>> /\ events[1] = "D" THEN Tail(events) ELSE events
      only(kinds) == \A n \in 1..Len(doc) : doc[n] \in kinds
      result(exc, type) ==
        [exc |-> exc, type |-> type,
         value |-> IF type = "dict" THEN yaml_mapping(lines) ELSE EmptyDict]
  IN IF ~only({"S", "M", "Q", "V"}) THEN result("YAMLError", "")
     ELSE IF doc = <<>> THEN result(NoExc, "NoneType")
     ELSE IF doc[1] = "S"
          THEN (IF only({"S", "Q"}) THEN result(NoExc, "str") ELSE result("YAMLError", ""))
     ELSE IF doc[1] = "Q"
          THEN (IF only({"Q"}) THEN result(NoExc, "list") ELSE result("YAMLError", ""))
     ELSE IF ~only({"M", "V"}) THEN result("YAMLError", "")
     ELSE IF ~only({"M"}) THEN result("ValueError", "")
     ELSE result(NoExc, "dict")

MissingDelimiters == "Missing opening and closing delimiter lines"

DelimiterNotFirst == "Marker may only be preceeded by blank lines"

MustBeMapping == "Frontmatter must be a YAML mapping"

ParserMessage == "str(e)"

Raised(exc, msg) == [exc |-> exc, msg |-> msg, fm |-> EmptyDict, content |-> NoStr]

\* read_frontmatter_file: the front matter of the region between the markers
parse_region(text) ==
  IF yaml_load(text).exc = "ValueError" THEN Raised("FrontmatterError", ParserMessage)
  ELSE IF yaml_load(text).exc /= NoExc THEN Raised(yaml_load(text).exc, ParserMessage)
  ELSE IF yaml_load(text).type = "NoneType" THEN [exc |-> NoExc, msg |-> "", fm |-> EmptyDict, content |-> NoStr]
  ELSE IF yaml_load(text).type /= "dict" THEN Raised("FrontmatterError", MustBeMapping)
  ELSE [exc |-> NoExc, msg |-> "", fm |-> yaml_load(text).value, content |-> NoStr]

\* read_frontmatter_file(filename), on the text of the file
read_frontmatter_file(text) ==
  LET lines == readlines(text)
      m == find_markers(lines)
  IN IF ~m.found THEN Raised("FrontmatterError", MissingDelimiters)
     ELSE IF strip(joinlines(SubSeq(lines, 1, m.fm_start))) /= <<>>
          THEN Raised("FrontmatterError", DelimiterNotFirst)
     ELSE LET parsed(r) ==
                IF r.exc /= NoExc THEN r
                ELSE [r EXCEPT !.content = joinlines(SubSeq(lines, m.fm_end + 2, Len(lines)))]
          IN parsed(parse_region(joinlines(SubSeq(lines, m.fm_start + 2, m.fm_end))))

(***************************************************************************)
(* The texts read_frontmatter_file is applied to: every text of a few      *)
(* tokens, and every region of a few YAML lines between two markers        *)
(***************************************************************************)
MaxFileTokens == 5

MaxYamlLines == 2

FileTokens == {<<"-", "-", "-">>, <<Newline>>, <<"a">>, <<" ">>}

RECURSIVE FileTexts(_)
FileTexts(n) ==
  IF n = 0 THEN {<<>>}
  ELSE FileTexts(n - 1) \cup {t \o k : t \in FileTexts(n - 1), k \in FileTokens}

YamlLines ==
  {<<Newline>>, <<"a", Newline>>, <<"k", ":", "v", Newline>>, <<"k", ":", " ", "v", Newline>>,
   <<"-", " ", "a", Newline>>,
   <<"d", ":", " ", "2", "0", "0", "0", "-", "1", "3", "-", "0", "1", Newline>>}

RECURSIVE YamlRegions(_)
YamlRegions(n) ==
  IF n = 0 THEN {<<>>}
  ELSE YamlRegions(n - 1) \cup {r \o l : r \in YamlRegions(n - 1), l \in YamlLines}

YamlTexts == {marker \o r \o marker \o <<"a">> : r \in YamlRegions(MaxYamlLines)}

InitFrontmatter ==
  /\ input \in FileTexts(MaxFileTokens) \cup YamlTexts
  /\ results = <<>>
  /\ site = Site({}, {}, EmptyDict, NoStatic)
  /\ fs = Tree(EmptyDict, {})
  /\ inst = "none"
  /\ app = NoApp
  /\ op = Op("none", NoStr, NoBuild)
  /\ last = NoLast

ReadFrontmatter ==
  /\ results = <<>>
  /\ results' = <<read_frontmatter_file(input)>>
  /\ op' = Op("read_frontmatter_file", NoStr, NoBuild)
  /\ UNCHANGED <<site, inst, app, fs, last, input>>

NextFrontmatter == ReadFrontmatter

SpecFrontmatter == InitFrontmatter /\ [][NextFrontmatter]_vars

\* the lines of the text that are a delimiter: --- with its newline, or ---
\* as the last line without one
DelimiterLines(text) ==
  {n \in 1..Len(readlines(text)) :
     \/ readlines(text)[n] = <<"-", "-", "-", Newline>>
     \/ n = Len(readlines(text)) /\ readlines(text)[n] = <<"-", "-", "-">>}

HasDelimiterPair(text) == Cardinality(DelimiterLines(text)) >= 2

Opening(text) == CHOOSE n \in DelimiterLines(text) : \A m \in DelimiterLines(text) : n <= m

Closing(text) ==
  CHOOSE n \in DelimiterLines(text) \ {Opening(text)} :
    \A m \in DelimiterLines(text) \ {Opening(text)} : n <= m

NonBlankBeforeOpening(text) ==
  \E n \in 1..(Opening(text) - 1) :
    \E c \in 1..Len(readlines(text)[n]) : readlines(text)[n][c] \notin {" ", Newline}

\* the number of characters of the first n lines
RECURSIVE LengthOfLines(_, _)
LengthOfLines(lines, n) == IF n = 0 THEN 0 ELSE Len(lines[n]) + LengthOfLines(lines, n - 1)

TextAfterClosing(text) == From(text, LengthOfLines(readlines(text), Closing(text)))

\* C17: read_frontmatter_file fails for missing delimiters exactly when the
\* text has no two delimiter lines, fails for a delimiter that is not first
\* exactly when it has them and a non-blank line precedes the first, and
\* when it returns, the body is the text after the second delimiter line.
C17_DelimitersAndBody ==
  (op.name = "read_frontmatter_file" /\ results /= <<>>) =>
    /\ (results[1].exc = "FrontmatterError" /\ results[1].msg = MissingDelimiters)
         <=> ~HasDelimiterPair(input)
    /\ (results[1].exc = "FrontmatterError" /\ results[1].msg = DelimiterNotFirst)
         <=> (HasDelimiterPair(input) /\ NonBlankBeforeOpening(input))
    /\ results[1].exc = NoExc => results[1].content = TextAfterClosing(input)

\* blank lines, the two delimiters, and a body that is returned
C17_Witness ==
  /\ op.name = "read_frontmatter_file"
  /\ input = <<"-", "-", "-", Newline, "-", "-", "-", Newline, "a">>
  /\ results = <<[exc |-> NoExc, msg |-> "", fm |-> EmptyDict, content |-> <<"a">>]>>

\* the region between the delimiters of a text that has them first
RegionOf(text) ==
  SubSeq(text, LengthOfLines(readlines(text), Opening(text)) + 1,
         LengthOfLines(readlines(text), Closing(text) - 1))

\* C18 (as claimed): for the region between the delimiters, a failure of the
\* YAML parser ends in FrontmatterError, an empty region gives the empty
\* mapping, and a document that is no mapping ends in FrontmatterError.
C18_RegionErrorsAreFrontmatterErrors ==
  (/\ op.name = "read_frontmatter_file" /\ results /= <<>>
   /\ HasDelimiterPair(input) /\ ~NonBlankBeforeOpening(input)) =>
    /\ yaml_load(RegionOf(input)).exc /= NoExc => results[1].exc = "FrontmatterError"
    /\ strip(RegionOf(input)) = <<>> => results[1].exc = NoExc /\ results[1].fm = EmptyDict
    /\ (/\ yaml_load(RegionOf(input)).exc = NoExc
        /\ yaml_load(RegionOf(input)).type \in {"str", "list"})
         => results[1].exc = "FrontmatterError" /\ results[1].msg = MustBeMapping

(***************************************************************************)
(* Sites whose collection /b/ declares pages, valid and invalid, or a      *)
(* url_format that starts with a slash                                     *)
(***************************************************************************)
TitleP == <<"p">>

TitleX == <<"x">>

\* the invalid page declarations: a page that is no mapping, a mapping
\* without title, a title that is a mapping, an empty title, a title that
\* starts with a slash, and a page with a key of its own
BadPages ==
  {[Page(NoStr) EXCEPT !.is_dict = FALSE],
   [Page(NoStr) EXCEPT !.title_type = "NoneType"],
   [Page(NoStr) EXCEPT !.title_type = "dict"],
   Page(NoStr),
   Page(<<"/", "q">>),
   [Page(TitleP) EXCEPT !.unexpected = TRUE]}

PageLists ==
  {<<Page(TitleP)>>, <<Page(<<"a">>)>>, <<Page(TitleX)>>, <<Page(TitleP), Page(TitleP)>>}
  \cup {<<bad>> : bad \in BadPages}
  \cup {<<Page(<<"a">>), bad>> : bad \in BadPages}

SlashFormat == <<Lit(<<"/", "z">>), Var("slug")>>

PageDescriptors ==
  {Descriptor(NoStr, pages, <<>>) : pages \in PageLists}
  \cup {[Descriptor(NoStr, <<Page(TitleP)>>, <<>>) EXCEPT !.pages_is_list = FALSE]}
  \cup {Descriptor(NoStr, pages, SlashFormat) : pages \in {<<>>, <<Page(TitleP)>>}}

PageSites ==
  {Site({F_b_yaml, F_b_x, F_b_a}, {}, [f \in {F_b_yaml} |-> d], NoStatic) :
     d \in PageDescriptors}

InitPages ==
  /\ site \in PageSites
  /\ fs = Tree(EmptyDict, {})
  /\ inst = "none"
  /\ app = NoApp
  /\ op = Op("none", NoStr, NoBuild)
  /\ last = NoLast
  /\ input = NoStr
  /\ results = <<>>

SpecPages == InitPages /\ [][Next]_vars

PageUrl(page) == normalize_url(<<"/", "b", "/">> \o page.title)

BadDeclaration(page) ==
  \/ ~page.is_dict
  \/ page.title_type /= "str"
  \/ page.unexpected
  \/ page.title = <<>>
  \/ page.title[1] = "/"

\* the page n of the descriptor is invalid for a url map: badly declared,
\* or at the url of an entry of the map or of an earlier page
InvalidPage(d, n, map) ==
  \/ BadDeclaration(d.pages[n])
  \/ PageUrl(d.pages[n]) \in Keys(map) \cup {PageUrl(d.pages[m]) : m \in 1..(n - 1)}

HasInvalidPage(d, map) ==
  ~d.pages_is_list \/ \E n \in 1..Len(d.pages) : InvalidPage(d, n, map)

\* the pages declared before the first invalid one
PagesBeforeInvalid(d, map) ==
  IF ~d.pages_is_list THEN {}
  ELSE {m \in 1..Len(d.pages) : \A n \in 1..m : ~InvalidPage(d, n, map)}

\* C19 (as claimed): a resolution that meets an invalid page declaration ends
\* in ConfigError, having added to the url map the urls of the pages declared
\* before it and no other.
C19_InvalidPageIsConfigError ==
  [][(/\ op'.name = "generate_urls"
      /\ ~app.has_generated_urls
      /\ HasInvalidPage(site.desc[F_b_yaml], app.url_map))
     => /\ app'.exc = "ConfigError"
        /\ Keys(app'.url_map)
             = Keys(app.url_map)
               \cup {PageUrl(site.desc[F_b_yaml].pages[m]) :
                       m \in PagesBeforeInvalid(site.desc[F_b_yaml], app.url_map)}]_vars

HasSlashFormat(d) == d.url_format /= <<>> /\ d.url_format[1].lit /= NoStr /\ d.url_format[1].lit[1] = "/"

\* C20: a collection whose url_format starts with a slash ends the
\* construction, or the reset, of the App in ConfigError with no file
\* consumed and no url in the url map.
C20_SlashFormatRejectedFirst ==
  (/\ op.name \in {"construct", "reset"}
   /\ \E f \in DOMAIN site.desc : HasSlashFormat(site.desc[f])) =>
    /\ app.exc = "ConfigError"
    /\ app.consumed_files = {}
    /\ app.url_map = <<>>
    /\ ~app.has_generated_urls

C20_Witness ==
  /\ op.name = "construct"
  /\ site.desc[F_b_yaml].url_format = SlashFormat
  /\ site.desc[F_b_yaml].pages = <<Page(TitleP)>>
  /\ app.exc = "ConfigError"
  /\ app.url_map = <<>>

(***************************************************************************)
(* Builds of url maps the caller fills with add_url: build actions,        *)
(* strings, callables returning either and other objects, at urls with and *)
(* without a trailing slash                                                *)
(***************************************************************************)
U_a == <<"/", "a", "/">>

U_a_file == <<"/", "a">>

U_ab == <<"/", "a", "/", "b">>

U_a_index == <<"/", "a", "/", "i", "n", "d", "e", "x", ".", "h", "t", "m", "l">>

\* a url that leaves the build directory and one that leaves it for a
\* sibling directory whose name starts with the build directory's
U_up == <<"/", ".", ".", "/", "x">>

U_sibling == <<"/", ".", ".", "/", "o", "2", "/", "x">>

Entry(url, view) == [url |-> url, view |-> view]

Callable(view) == [view EXCEPT !.kind = "callable_" \o @]

Str(content) == [File(content) EXCEPT !.kind = "str"]

Object == [File(NoStr) EXCEPT !.kind = "object"]

E_page == Entry(U_a, Str(<<"1">>))

E_page_noslash == Entry(U_a_file, Callable(Str(<<"2">>)))

E_file_under == Entry(U_ab, Callable(File(<<"4">>)))

E_file_index == Entry(U_a_index, File(<<"5">>))

E_file_slash == Entry(U_a, File(<<"6">>))

E_object == Entry(U_ab, Object)

E_callable_object == Entry(U_a_file, Callable(Object))

E_copy_under == Entry(U_ab, Copy(abs_content(F_txt)))

E_copy == Entry(U_a_file, Copy(abs_content(F_txt)))

E_link == Entry(U_a_file, Link(abs_content(F_txt), FALSE))

E_up == Entry(U_up, File(<<"7">>))

E_sibling == Entry(U_sibling, File(<<"8">>))

\* the entries the caller adds, in either order
BuildEntries ==
  {{E_page, E_page_noslash}, {E_page, E_file_index}, {E_file_slash, E_object},
   {E_file_under, E_callable_object}, {E_copy_under, E_link}, {E_page, E_copy},
   {E_up, E_sibling}}

BuildSites ==
  {[Site({F_txt}, {}, EmptyDict, NoStatic) EXCEPT !.entries = es] : es \in BuildEntries}

InitBuild ==
  /\ site \in BuildSites
  /\ fs = Tree([q \in {B_stale} |-> Regular(Old)], {build_dir, dirname(B_stale)})
  /\ inst = "none"
  /\ app = NoApp
  /\ op = Op("none", NoStr, NoBuild)
  /\ last = NoLast
  /\ input = NoStr
  /\ results = <<>>

SpecBuild == InitBuild /\ [][Next]_vars

IndexHtml == <<"i", "n", "d", "e", "x", ".", "h", "t", "m", "l">>

HtmlKinds == {"TemplateView", "MarkdownView", "str", "callable_str"}

\* the urls the build yielded whose segments are all names
PlainYielded ==
  {i \in 1..Len(op.build.yielded) :
     \A j \in 1..Len(Segments(op.build.yielded[i])) :
        Segments(op.build.yielded[i])[j] \notin {<<".">>, <<".", ".">>}}

WithoutTrailingSlash(url) == IF EndsWith(url, <<"/">>) THEN Upto(url, -1) ELSE url

\* where the url alone says the entry goes
PathOfUrl(url) ==
  IF EndsWith(url, <<"/">>) THEN build_dir \o url \o IndexHtml ELSE build_dir \o url

\* where the url and the kind of the entry say it goes
PathOfEntry(url, view) ==
  IF view.kind \in HtmlKinds
  THEN build_dir \o WithoutTrailingSlash(url) \o <<"/">> \o IndexHtml
  ELSE build_dir \o WithoutTrailingSlash(url)

Stopped == op.build.started /\ Len(op.build.yielded) < Len(app.url_map)

FailedEntry == app.url_map[Len(op.build.yielded) + 1]

Unresolvable(view) == view.kind \in {"object", "callable_object"}

\* the entries of the map with a body of their own that a build has yielded
YieldedBodies ==
  {i \in 1..Len(app.url_map) :
     /\ i <= Len(op.build.yielded)
     /\ app.url_map[i].value.kind \in {"File", "callable_File", "str", "callable_str"}}

\* C22: a build stops with RuntimeError exactly at an entry whose value,
\* called first if it is callable, is neither a build action nor a string; an
\* action, a string, a callable returning an action and a callable returning
\* a string each leave their file, a string's being index.html under its url,
\* holding the body of an entry written there
C22_ResolvedOrRuntimeError ==
  /\ Stopped => (Unresolvable(FailedEntry.value) <=> app.exc = "RuntimeError")
  /\ op.build.started =>
       \A i \in YieldedBodies \cap PlainYielded :
         LET url == app.url_map[i].key
             view == app.url_map[i].value
             path == PathOfEntry(url, view)
         IN /\ view.kind \in {"str", "callable_str"} => EndsWith(path, <<"/">> \o IndexHtml)
            /\ isfile(fs, path)
            /\ \E j \in YieldedBodies :
                 /\ PathOfEntry(app.url_map[j].key, app.url_map[j].value) = path
                 /\ fs.files[path] = Regular(app.url_map[j].value.arg)

\* a build wrote a callable's file and stopped at a callable returning an
\* object
C22_Witness ==
  /\ Stopped
  /\ FailedEntry.value.kind = "callable_object"
  /\ \E i \in YieldedBodies : app.url_map[i].value.kind = "callable_File"

(***************************************************************************)
(* Rendering with templates missing from template_dir                      *)
(***************************************************************************)
\* the page / names no template or t.html; default.html and t.html are each
\* present or missing
TemplateSites ==
  {[Site({F_index}, {}, EmptyDict, NoStatic)
      EXCEPT !.fm = [f \in {F_index} |-> fmd], !.missing = m] :
     fmd \in {EmptyDict, OneKey("template", TemplateT)},
     m \in SUBSET {DEFAULT_TEMPLATE, TemplateT}}

InitTemplates ==
  /\ site \in TemplateSites
  /\ fs = Tree(EmptyDict, {})
  /\ inst = "none"
  /\ app = NoApp
  /\ op = Op("none", NoStr, NoBuild)
  /\ last = NoLast
  /\ input = NoStr
  /\ results = <<>>

SpecTemplates == InitTemplates /\ [][Next]_vars

\* the views of the map a started build has come to, with their templates
\* missing
ReachedMissing ==
  {i \in ViewEntries(app.url_map) :
     /\ op.build.started
     /\ i <= Len(op.build.yielded) + 1
     /\ app.url_map[i].value.context["template"] \in site.missing}

\* C23: a View whose template is missing renders all the same when the
\* template is default.html (the build yields its url and writes its page),
\* and for any other template stops the build with a TemplateNotFound that
\* names the template and the url of the View
C23_MissingTemplate ==
  \A i \in ReachedMissing :
    LET view == app.url_map[i].value
        template == view.context["template"]
    IN IF template = DEFAULT_TEMPLATE
       THEN /\ i <= Len(op.build.yielded)
            /\ isfile(fs, PathOfEntry(app.url_map[i].key, view))
       ELSE /\ i = Len(op.build.yielded) + 1
            /\ app.exc = "TemplateNotFound"
            /\ op.build.error.template = template
            /\ op.build.error.url = app.url_map[i].key

(***************************************************************************)
(* extract_info_from_filename over Markdown filenames with and without a   *)
(* date in front                                                           *)
(***************************************************************************)
NamePrefixes ==
  {<<>>, <<"2", "0", "0", "0", "-", "0", "1", "-", "0", "1">>,
   <<"2", "0", "0", "4", "-", "0", "2", "-", "2", "9">>,
   <<"2", "0", "0", "0", "-", "0", "2", "-", "3", "0">>,
   <<"2", "0", "0", "0", "-", "1", "3", "-", "0", "1">>,
   <<"2", "0", "2", "A", "-", "0", "1", "-", "0", "2">>,
   <<"2", "0", "0", "0", "-", "1", "-", "1">>}

NameSeparators == {<<>>, <<"_">>, <<"-">>, <<"_", "_">>}

NameRests == {<<>>, <<"p">>, <<"a", "_", "b">>}

NameExtensions == {<<".", "m", "d">>, <<".", "m", "a", "r", "k", "d", "o", "w", "n">>}

Filenames ==
  {d \o u \o r \o e : d \in NamePrefixes, u \in NameSeparators, r \in NameRests,
                      e \in NameExtensions} \ NameExtensions

InitFilename ==
  /\ input \in Filenames
  /\ results = <<>>
  /\ site = Site({}, {}, EmptyDict, NoStatic)
  /\ fs = Tree(EmptyDict, {})
  /\ inst = "none"
  /\ app = NoApp
  /\ op = Op("none", NoStr, NoBuild)
  /\ last = NoLast

ExtractInfo ==
  /\ results = <<>>
  /\ results' = <<IF extract_info_raises(input)
                  THEN [exc |-> "IndexError", info |-> EmptyDict]
                  ELSE [exc |-> NoExc, info |-> extract_info_from_filename(input)]>>
  /\ op' = Op("extract_info_from_filename", NoStr, NoBuild)
  /\ UNCHANGED <<site, inst, app, fs, last, input>>

NextFilename == ExtractInfo

SpecFilename == InitFilename /\ [][NextFilename]_vars

\* the filename up to its last dot
Stem(fname) ==
  SubSeq(fname, 1, (CHOOSE i \in 1..Len(fname) :
                      fname[i] = "." /\ \A j \in (i + 1)..Len(fname) : fname[j] /= ".") - 1)

\* s is YYYY-MM-DD and a day of the calendar
IsIsoDate(s) ==
  /\ Len(s) = 10
  /\ s[5] = "-" /\ s[8] = "-"
  /\ \A i \in {1, 2, 3, 4, 6, 7, 9, 10} : IsDigit(s[i])
  /\ ToInt(SubSeq(s, 1, 4)) >= 1
  /\ ToInt(SubSeq(s, 6, 7)) \in 1..12
  /\ ToInt(SubSeq(s, 9, 10)) \in 1..DaysInMonth(ToInt(SubSeq(s, 1, 4)), ToInt(SubSeq(s, 6, 7)))

HasDatePrefix(stem) ==
  Len(stem) >= 11 /\ IsIsoDate(SubSeq(stem, 1, 10)) /\ stem[11] = "_"

\* C24: extract_info_from_filename returns for every Markdown filename; when
\* the name starts with a date YYYY-MM-DD followed by "_" the info has that
\* date and the slug is the name without its extension, the date and the
\* "_"; for every other name the info has no date and the slug is the name
\* without its extension
C24_DateFromFilename ==
  op.name = "extract_info_from_filename" =>
    LET stem == Stem(input)
        info == results[1].info
    IN /\ results[1].exc = NoExc
       /\ "slug" \in DOMAIN info
       /\ IF HasDatePrefix(stem)
          THEN /\ "date" \in DOMAIN info
               /\ info["date"] = SubSeq(stem, 1, 10)
               /\ info["slug"] = From(stem, 11)
          ELSE /\ "date" \notin DOMAIN info
               /\ info["slug"] = stem

(***************************************************************************)
(* Static files under every combination of link and link_above             *)
(***************************************************************************)
\* link_above below, at and above the size of the file f.txt
Thresholds == {0, getsize(abs_content(F_txt)) - 1, getsize(abs_content(F_txt)),
               getsize(abs_content(F_txt)) + 1}

LinkOptions ==
  {StaticOptions(link_given, link, above_given, link_above, "soft") :
     link_given \in BOOLEAN, link \in BOOLEAN, above_given \in BOOLEAN,
     link_above \in Thresholds}

\* an option left out has no value
GivenOptions ==
  {o \in LinkOptions : /\ ~o.link_given => ~o.link
                       /\ ~o.link_above_given => o.link_above = 0}

LinkSites == {Site({F_txt}, {}, EmptyDict, o) : o \in GivenOptions}

InitLinks ==
  /\ site \in LinkSites
  /\ fs = Tree(EmptyDict, {})
  /\ inst = "none"
  /\ app = NoApp
  /\ op = Op("none", NoStr, NoBuild)
  /\ last = NoLast
  /\ input = NoStr
  /\ results = <<>>

SpecLinks == InitLinks /\ [][Next]_vars

LinkingEnabled ==
  \/ site.static.link_given /\ site.static.link
  \/ ~site.static.link_given /\ site.static.link_above_given

NoThreshold == ~site.static.link_above_given \/ site.static.link_above = 0

\* the entries of the url map for static files
StaticEntries ==
  {i \in 1..Len(app.url_map) : app.url_map[i].value.kind \in {"Copy", "Link"}}

\* C25: the action of a claimed static file is a Link exactly when linking
\* is enabled (link true, or link left out and link_above given) and the
\* threshold is 0 or left out or the file is strictly larger than link_above;
\* it is a Copy in every other case
C25_LinkExactlyWhenEnabledAndLarge ==
  \A i \in StaticEntries :
    LET view == app.url_map[i].value
    IN view.kind = "Link" <=>
         /\ LinkingEnabled
         /\ NoThreshold \/ Len(view.md_file) > site.static.link_above

\* a file of exactly the threshold's size was resolved with linking enabled
C25_Witness ==
  /\ StaticEntries /= {}
  /\ LinkingEnabled
  /\ ~NoThreshold
  /\ \E i \in StaticEntries : Len(app.url_map[i].value.md_file) = site.static.link_above

(***************************************************************************)
(* Resolution with the two Collection generators of a site invoked in      *)
(* either order                                                            *)
(***************************************************************************)
\* the collection /b/ with /b/s/ nested in it, every descriptor of the two
NestedSites ==
  {Site(ContentUniverse, {}, [f \in {F_b_yaml, F_bs_yaml} |-> IF f = F_b_yaml THEN d ELSE e],
        NoStatic) : d \in DescriptorsB, e \in DescriptorsBS}

Orders == {"registered", "reversed"}

OtherOrder(order) == IF order = "registered" THEN "reversed" ELSE "registered"

\* the generators with the first two, when both are collections, exchanged
Reversed(a) ==
  IF /\ a.exc = NoExc
     /\ Len(a.generators) >= 2
     /\ a.generators[1].cls = "Collection"
     /\ a.generators[2].cls = "Collection"
  THEN [a EXCEPT !.generators = <<@[2], @[1]>> \o SubSeq(@, 3, Len(@))]
  ELSE a

\* App(root).generate_urls() with the collections in the given order
ResolveIn(order) ==
  generate_urls(IF order = "reversed" THEN Reversed(reset(NoApp)) ELSE reset(NoApp))

\* what resolution gave: the exception, the url map as a set of entries and
\* the items of every collection
Outcome(a) ==
  [exc |-> a.exc,
   url_map |-> {a.url_map[i] : i \in 1..Len(a.url_map)},
   items |-> {[url |-> a.generators[gi].url, items |-> a.generators[gi].items] :
                gi \in {g \in 1..Len(a.generators) : a.generators[g].cls = "Collection"}}]

InitGeneratorOrder ==
  /\ site \in NestedSites
  /\ input \in Orders
  /\ results = <<>>
  /\ fs = Tree(EmptyDict, {})
  /\ inst = "none"
  /\ app = NoApp
  /\ op = Op("none", NoStr, NoBuild)
  /\ last = NoLast

ResolveInOrder ==
  /\ results = <<>>
  /\ results' = <<Outcome(ResolveIn(input))>>
  /\ op' = Op("generate_urls", NoStr, NoBuild)
  /\ UNCHANGED <<site, inst, app, fs, last, input>>

NextGeneratorOrder == ResolveInOrder

SpecGeneratorOrder == InitGeneratorOrder /\ [][NextGeneratorOrder]_vars

\* C26: resolution with the two collections invoked in one order gives the
\* url map, the item lists and the success or failure it gives with them
\* invoked in the other order
C26_OrderIndependent ==
  results /= <<>> => results[1] = Outcome(ResolveIn(OtherOrder(input)))

Builders == {"build_content", "generate"}

\* C27: a build that fails at some entry has deleted none of the files the
\* build directory held before it, so files are deleted only once every url
\* of the map has been processed; and the urls a build yields are the keys of
\* the entries it has written, one for each, in the order of the map
C27_StaleDeletedOnlyAtTheEnd ==
  [][(op'.name \in Builders /\ op'.build.started) =>
       /\ app'.exc /= NoExc => DOMAIN fs.files \subseteq DOMAIN fs'.files
       /\ ~(DOMAIN fs.files \subseteq DOMAIN fs'.files) =>
            Len(op'.build.yielded) = Len(app'.url_map)
       /\ Len(op'.build.yielded) <= Len(app'.url_map)
       /\ \A i \in 1..Len(op'.build.yielded) : op'.build.yielded[i] = app'.url_map[i].key
       /\ app'.exc /= NoExc <=> Len(op'.build.yielded) < Len(app'.url_map)]_vars

\* a build over a directory with a stale file wrote an entry and failed at
\* the next
C27_Witness ==
  /\ op.build.started
  /\ app.exc /= NoExc
  /\ Len(op.build.yielded) >= 1
  /\ op.build.existing \ op.build.written /= {}

\* C28: the entries a build has written went to as many files: no file is
\* written for two urls of one build
C28_OneUrlPerFile ==
  op.build.started => Cardinality(op.build.written) = Len(op.build.yielded)

\* strictly inside the build directory
Inside(path) == StartsWith(path, build_dir \o <<"/">>)

\* C29: a build writes, links, deletes and removes only strictly inside the
\* build directory: every file it creates, changes or deletes and every
\* directory it creates or removes is below build_dir, no content file is
\* written through a link, and build_dir exists when the build ends
C29_MutationsInsideBuildDir ==
  [][(op'.name \in Builders /\ op'.build.started) =>
       /\ \A q \in DOMAIN fs'.files :
            (q \notin DOMAIN fs.files \/ fs'.files[q] /= fs.files[q]) => Inside(q)
       /\ \A q \in DOMAIN fs.files \ DOMAIN fs'.files : Inside(q)
       /\ \A q \in fs'.dirs \ fs.dirs : Inside(q) \/ q = build_dir
       /\ \A q \in fs.dirs \ fs'.dirs : Inside(q)
       /\ fs'.clobbered = fs.clobbered
       /\ build_dir \in fs'.dirs]_vars

\* C30: the item test of a collection answers for every Markdown file the
\* collection walks, the file index.md of a collection at the content root
\* included: no resolution ends in the ValueError of a failed item test
C30_ItemTestNeverAborts ==
  (op.name \in {"generate_urls", "generate"} /\ ~op.build.started) => app.exc /= "ValueError"

====
